---- MODULE Spec2Model ----
(***************************************************************************)
(* A model of packages/monday/index.js (@import-af/monday 1.0.12): the     *)
(* retry wrapper, the GraphQL client, the column sanitizers, the dynamic   *)
(* mapper with its column-settings cache, and the error logger.            *)
(*                                                                         *)
(* JavaScript strings are sequences of one-character strings, so that      *)
(* trim, toLowerCase, includes, split, replace and match are computed on   *)
(* characters.  JavaScript values are records tagged with their type.      *)
(***************************************************************************)
EXTENDS Integers, Sequences, FiniteSets, TLC

VARIABLES
  retryConfig,          \* MondayApiClient.retryConfig
  board_columns,        \* MondayApiClient.board_columns: boardId -> columns
  columnSettingsCache,  \* MondayDynamicMapper.columnSettingsCache: boardId -> column map
  servedSinceClear,     \* history: boards whose column map was returned since its last clear
  legacyDateParsing,    \* environment: the host's Date accepts strings that are not ISO dates
  call                  \* the last operation: its arguments, what it sent, how it ended

vars ==
  <<retryConfig, board_columns, columnSettingsCache, servedSinceClear, legacyDateParsing,
    call>>

-----------------------------------------------------------------------------
(* JavaScript values *)

Undefined == [t |-> "undefined"]
Null == [t |-> "null"]
Bool(b) == [t |-> "bool", b |-> b]
\* the number m * 10^(-e); integers have e = 0
Dec(m, e) == [t |-> "num", m |-> m, e |-> e]
Num(n) == Dec(n, 0)
NaN == [t |-> "nan"]
Str(s) == [t |-> "str", s |-> s]
Arr(e) == [t |-> "arr", e |-> e]
Obj(f) == [t |-> "obj", f |-> f]
EmptyObj == Obj(<<>>)

\* ToBoolean
Truthy(v) ==
  CASE v.t = "undefined" -> FALSE
    [] v.t = "null" -> FALSE
    [] v.t = "nan" -> FALSE
    [] v.t = "bool" -> v.b
    [] v.t = "num" -> v.m # 0
    [] v.t = "str" -> v.s # <<>>
    [] OTHER -> TRUE

\* a || b
OrElse(a, b) == IF Truthy(a) THEN a ELSE b

Return(v) == [kind |-> "return", value |-> v]
Throw(e) == [kind |-> "throw", error |-> e]

\* new Error(message), TypeError(message): code and status are set by the thrower
Error(message) == [message |-> Str(message), code |-> Undefined, status |-> Undefined]

-----------------------------------------------------------------------------
(* Strings *)

Digits == <<"0","1","2","3","4","5","6","7","8","9">>
WhiteSpace == {" "}

IsDigit(c) == \E i \in 1..10 : Digits[i] = c

LowerChar(c) ==
  IF \E i \in 1..26 : <<"A","B","C","D","E","F","G","H","I","J","K","L","M","N","O","P","Q","R","S","T","U","V","W","X","Y","Z">>[i] = c
  THEN <<"a","b","c","d","e","f","g","h","i","j","k","l","m","n","o","p","q","r","s","t","u","v","w","x","y","z">>[CHOOSE i \in 1..26 : <<"A","B","C","D","E","F","G","H","I","J","K","L","M","N","O","P","Q","R","S","T","U","V","W","X","Y","Z">>[i] = c]
  ELSE c

\* String.prototype.toLowerCase
toLowerCase(s) == [i \in 1..Len(s) |-> LowerChar(s[i])]

\* String.prototype.includes
includes(s, p) == \E i \in 0..(Len(s) - Len(p)) : SubSeq(s, i + 1, i + Len(p)) = p

\* String.prototype.startsWith
startsWith(s, p) == Len(s) >= Len(p) /\ SubSeq(s, 1, Len(p)) = p

RECURSIVE trimStart(_)
trimStart(s) == IF s # <<>> /\ Head(s) \in WhiteSpace THEN trimStart(Tail(s)) ELSE s

RECURSIVE trimEnd(_)
trimEnd(s) ==
  IF s # <<>> /\ s[Len(s)] \in WhiteSpace THEN trimEnd(SubSeq(s, 1, Len(s) - 1)) ELSE s

\* String.prototype.trim
trim(s) == trimEnd(trimStart(s))

\* the decimal digits of a natural number
RECURSIVE NatToString(_)
NatToString(n) ==
  IF n < 10 THEN <<Digits[n + 1]>> ELSE NatToString(n \div 10) \o <<Digits[(n % 10) + 1]>>

RECURSIVE Pow10(_)
Pow10(e) == IF e = 0 THEN 1 ELSE 10 * Pow10(e - 1)

RECURSIVE PadLeft(_, _)
PadLeft(s, n) == IF Len(s) >= n THEN s ELSE PadLeft(<<"0">> \o s, n)

\* Number.prototype.toString for m * 10^(-e)
NumToString(v) ==
  LET a == IF v.m < 0 THEN -v.m ELSE v.m
      sign == IF v.m < 0 THEN <<"-">> ELSE <<>>
  IN IF v.e = 0 THEN sign \o NatToString(a)
     ELSE sign \o NatToString(a \div Pow10(v.e)) \o <<".">>
               \o PadLeft(NatToString(a % Pow10(v.e)), v.e)

-----------------------------------------------------------------------------
(* Retry configuration and the retry predicate *)

DefaultDelayMs == 30000
RetrySleepMs == 45000

\* class RetryConfig: options.maxRetries || 1, options.delays || [30000].
\* retryableErrors and board_columns are stored and never read; they are left out.
RetryConfig(options) ==
  [maxRetries |-> OrElse(options.maxRetries, Num(1)),
   delays |-> OrElse(options.delays, Arr(<<Num(DefaultDelayMs)>>))]

ConnectionCodes == {Str(<<"E","C","O","N","N","R","E","S","E","T">>), Str(<<"E","N","O","T","F","O","U","N","D">>), Str(<<"E","C","O","N","N","R","E","F","U","S","E","D">>), Str(<<"E","T","I","M","E","D","O","U","T">>)}

retryablePatterns ==
  << <<"t","i","m","e","o","u","t">>, <<"r","a","t","e"," ","l","i","m","i","t">>, <<"s","e","r","v","e","r"," ","e","r","r","o","r">>, <<"i","n","t","e","r","n","a","l"," ","e","r","r","o","r">>, <<"s","e","r","v","i","c","e"," ","u","n","a","v","a","i","l","a","b","l","e">>,
     <<"t","e","m","p","o","r","a","r","i","l","y"," ","u","n","a","v","a","i","l","a","b","l","e">>, <<"c","o","m","p","l","e","x","i","t","y"," ","b","u","d","g","e","t">>, <<"t","o","o"," ","m","a","n","y"," ","r","e","q","u","e","s","t","s">> >>

\* statusCode >= lo && statusCode < hi, for an integer statusCode
NumInRange(v, lo, hi) == v.t = "num" /\ v.m >= lo * Pow10(v.e) /\ v.m < hi * Pow10(v.e)

isRetryableError_NoLowerCase(error, statusCode) ==
  IF error.code \in ConnectionCodes THEN TRUE
  ELSE IF Truthy(statusCode)
          /\ (NumInRange(statusCode, 500, 600)
              \/ statusCode = Num(429)
              \/ statusCode \in {Num(502), Num(503), Num(504)})
  THEN TRUE
  ELSE LET errorMessage ==
             IF error.message.t \in {"undefined", "null"} THEN <<>> ELSE error.message.s
       IN \E i \in DOMAIN retryablePatterns : includes(errorMessage, retryablePatterns[i])

isRetryableError(error, statusCode) ==
  IF error.code \in ConnectionCodes THEN TRUE
  ELSE IF Truthy(statusCode)
          /\ (NumInRange(statusCode, 500, 600)
              \/ statusCode = Num(429)
              \/ statusCode \in {Num(502), Num(503), Num(504)})
  THEN TRUE
  ELSE LET errorMessage ==
             IF error.message.t \in {"undefined", "null"} THEN <<>>
             ELSE toLowerCase(error.message.s)
       IN \E i \in DOMAIN retryablePatterns : includes(errorMessage, retryablePatterns[i])

-----------------------------------------------------------------------------
(* Objects: a sequence of <<key, value>> pairs with distinct keys, in insertion
   order (the order of Object.entries and for-in for keys that are not
   canonical array indices; the model uses no such keys). *)

HasOwn(o, k) == o.t = "obj" /\ \E i \in DOMAIN o.f : o.f[i][1] = k

OwnValue(o, k) == o.f[CHOOSE i \in DOMAIN o.f : o.f[i][1] = k][2]

\* the index i of an array, as the property key "i"
IsIndexKey(k, n) == \E i \in 0..(n - 1) : NatToString(i) = k

IndexOfKey(k, n) == CHOOSE i \in 0..(n - 1) : NatToString(i) = k

\* v[k] for v that is neither null nor undefined
Get(v, k) ==
  CASE v.t = "obj" -> IF HasOwn(v, k) THEN OwnValue(v, k) ELSE Undefined
    [] v.t = "arr" ->
         IF k = <<"l","e","n","g","t","h">> THEN Num(Len(v.e))
         ELSE IF IsIndexKey(k, Len(v.e)) THEN v.e[IndexOfKey(k, Len(v.e)) + 1]
         ELSE Undefined
    [] v.t = "str" ->
         IF k = <<"l","e","n","g","t","h">> THEN Num(Len(v.s))
         ELSE IF IsIndexKey(k, Len(v.s)) THEN Str(<<v.s[IndexOfKey(k, Len(v.s)) + 1]>>)
         ELSE Undefined
    [] OTHER -> Undefined

\* o[k] = x
Put(o, k, x) ==
  IF HasOwn(o, k)
  THEN Obj([i \in DOMAIN o.f |-> IF o.f[i][1] = k THEN <<k, x>> ELSE o.f[i]])
  ELSE Obj(Append(o.f, <<k, x>>))

IsNullish(v) == v.t \in {"undefined", "null"}

\* v?.[k]
OptGet(v, k) == IF IsNullish(v) THEN Undefined ELSE Get(v, k)

\* "Cannot read properties of undefined (reading 'k')"
ReadOfNullish(v, k) ==
  Error(<<"C","a","n","n","o","t"," ","r","e","a","d"," ","p","r","o","p","e","r","t","i","e","s"," ","o","f"," ">> \o (IF v.t = "null" THEN <<"n","u","l","l">> ELSE <<"u","n","d","e","f","i","n","e","d">>)
        \o <<" ","(","r","e","a","d","i","n","g"," ","'">> \o k \o <<"'",")">>)

\* TypeError: x.f is not a function
NotAFunction(what) == Error(what \o <<" ","i","s"," ","n","o","t"," ","a"," ","f","u","n","c","t","i","o","n">>)

RECURSIVE JoinStrings(_, _)
JoinStrings(parts, sep) ==
  IF parts = <<>> THEN <<>>
  ELSE IF Len(parts) = 1 THEN parts[1]
  ELSE parts[1] \o sep \o JoinStrings(Tail(parts), sep)

\* String(v) and `${v}`
RECURSIVE ToStr(_)
ToStr(v) ==
  CASE v.t = "undefined" -> <<"u","n","d","e","f","i","n","e","d">>
    [] v.t = "null" -> <<"n","u","l","l">>
    [] v.t = "nan" -> <<"N","a","N">>
    [] v.t = "bool" -> IF v.b THEN <<"t","r","u","e">> ELSE <<"f","a","l","s","e">>
    [] v.t = "num" -> NumToString(v)
    [] v.t = "str" -> v.s
    [] v.t = "arr" ->
         JoinStrings([i \in DOMAIN v.e |->
                        IF IsNullish(v.e[i]) THEN <<>> ELSE ToStr(v.e[i])], <<",">>)
    [] OTHER -> <<"[","o","b","j","e","c","t"," ","O","b","j","e","c","t","]">>

-----------------------------------------------------------------------------
(* withRetry *)

\* fn[i] is what the i-th invocation of the wrapped function does: Return(v) or
\* Throw(e).  The result records the completion, the number of invocations made
\* and the waits performed.
RECURSIVE RetryLoop(_, _, _, _)
RetryLoop(fn, config, attempt, sleeps) ==
  LET r == fn[attempt + 1]
  IN IF r.kind = "return"
     THEN [kind |-> "return", value |-> r.value, invocations |-> attempt + 1, sleeps |-> sleeps]
     ELSE IF attempt >= config.maxRetries.m \/ attempt + 1 >= Len(fn)
     THEN [kind |-> "throw", error |-> r.error, invocations |-> attempt + 1, sleeps |-> sleeps]
     ELSE RetryLoop(fn, config, attempt + 1, Append(sleeps, RetrySleepMs))

\* the loop the source has commented out: up to maxRetries further attempts
withRetry_Loop(fn, config) == RetryLoop(fn, config, 0, <<>>)

\* the one attempt that is left of withRetry.  The catch block reads
\* error.message for its warning before it waits, which raises when the value
\* thrown is null or undefined.
withRetry(fn, config) ==
  LET r == fn[1]
  IN IF r.kind = "return"
     THEN [kind |-> "return", value |-> r.value, invocations |-> 1, sleeps |-> <<>>]
     ELSE IF r.error \in {Null, Undefined}
     THEN [kind |-> "throw", error |-> ReadOfNullish(r.error, <<"m","e","s","s","a","g","e">>),
           invocations |-> 1, sleeps |-> <<>>]
     ELSE [kind |-> "return", value |-> Undefined, invocations |-> 1,
           sleeps |-> <<RetrySleepMs>>]

-----------------------------------------------------------------------------
(* JSON.stringify *)

RECURSIVE QuoteChars(_)
QuoteChars(s) ==
  IF s = <<>> THEN <<>>
  ELSE (IF Head(s) \in {"\"", "\\"} THEN <<"\\", Head(s)>> ELSE <<Head(s)>>)
       \o QuoteChars(Tail(s))

Quote(s) == <<"\"">> \o QuoteChars(s) \o <<"\"">>

\* JSON.stringify(v) for v other than undefined
RECURSIVE JSONStringify(_)
JSONStringify(v) ==
  CASE v.t \in {"null", "nan", "undefined"} -> <<"n","u","l","l">>
    [] v.t = "bool" -> IF v.b THEN <<"t","r","u","e">> ELSE <<"f","a","l","s","e">>
    [] v.t = "num" -> NumToString(v)
    [] v.t = "str" -> Quote(v.s)
    [] v.t = "arr" ->
         <<"[">> \o JoinStrings([i \in DOMAIN v.e |-> JSONStringify(v.e[i])], <<",">>) \o <<"]">>
    [] OTHER ->
         LET kept == SelectSeq(v.f, LAMBDA p : p[2].t # "undefined")
         IN <<"{">> \o JoinStrings([i \in DOMAIN kept |->
                                   Quote(kept[i][1]) \o <<":">> \o JSONStringify(kept[i][2])],
                                <<",">>) \o <<"}">>

\* JSON.parse(JSON.stringify(v)): properties holding undefined are dropped, undefined
\* and NaN elsewhere become null
RECURSIVE JSONClone(_)
JSONClone(v) ==
  CASE v.t \in {"nan", "undefined"} -> Null
    [] v.t = "arr" -> Arr([i \in DOMAIN v.e |-> JSONClone(v.e[i])])
    [] v.t = "obj" ->
         LET kept == SelectSeq(v.f, LAMBDA p : p[2].t # "undefined")
         IN Obj([i \in DOMAIN kept |-> <<kept[i][1], JSONClone(kept[i][2])>>])
    [] OTHER -> v

-----------------------------------------------------------------------------
(* MondayApiClient *)

\* What the transport does with one POST: fetch() rejects with an error, or
\* resolves to a response with a status, a body text and that body parsed.
\*   [kind |-> "reject", error |-> [message, code]]
\*   [kind |-> "response", status, statusText, text, json |-> Return(v) or Throw(e)]

\* the async function query() hands to withRetry, run against one transport outcome
QueryAttempt(resp) ==
  IF resp.kind = "reject"
  THEN Throw([Error(<<"N","e","t","w","o","r","k"," ","e","r","r","o","r",":"," ">> \o ToStr(resp.error.message))
                EXCEPT !.code = resp.error.code])
  ELSE IF resp.status \notin 200..299
  THEN Throw([message |-> Str(<<"M","o","n","d","a","y"," ","A","P","I"," ","H","T","T","P"," ","e","r","r","o","r",":"," ">> \o NatToString(resp.status) \o <<" ">>
                              \o resp.statusText \o <<" ","-"," ">>
                              \o (IF resp.text.kind = "return" THEN resp.text.value
                                  ELSE <<"U","n","k","n","o","w","n"," ","e","r","r","o","r">>)),
              code |-> Undefined,
              status |-> Num(resp.status),
              response |-> resp])
  ELSE IF resp.json.kind = "throw"
  THEN Throw(Error(<<"F","a","i","l","e","d"," ","t","o"," ","p","a","r","s","e"," ","M","o","n","d","a","y"," ","A","P","I"," ","r","e","s","p","o","n","s","e",":"," ">>
                   \o ToStr(resp.json.error.message)))
  ELSE LET result == resp.json.value
           errors == Get(result, <<"e","r","r","o","r","s">>)
       IN IF IsNullish(result) THEN Throw(ReadOfNullish(result, <<"e","r","r","o","r","s">>))
          ELSE IF Truthy(errors) /\ Truthy(Get(errors, <<"l","e","n","g","t","h">>))
          THEN LET first == Get(errors, <<"0">>)
                   message == OptGet(first, <<"m","e","s","s","a","g","e">>)
               IN IF IsNullish(first) THEN Throw(ReadOfNullish(first, <<"m","e","s","s","a","g","e">>))
                  ELSE IF message.t # "str"
                  THEN Throw(IF IsNullish(message)
                             THEN ReadOfNullish(message, <<"t","o","L","o","w","e","r","C","a","s","e">>)
                             ELSE NotAFunction(<<"r","e","s","u","l","t",".","e","r","r","o","r","s","[","0","]",".","m","e","s","s","a","g","e",".","t","o","L","o","w","e","r","C","a","s","e">>))
                  ELSE LET errorMsg == toLowerCase(message.s)
                       IN Throw([message |-> Str(<<"M","o","n","d","a","y"," ","G","r","a","p","h","Q","L"," ","e","r","r","o","r",":"," ">> \o message.s),
                                 code |-> IF includes(errorMsg, <<"c","o","m","p","l","e","x","i","t","y">>)
                                             \/ includes(errorMsg, <<"r","a","t","e"," ","l","i","m","i","t">>)
                                          THEN Str(<<"C","O","M","P","L","E","X","I","T","Y","_","E","R","R","O","R">>) ELSE Undefined,
                                 status |-> Undefined,
                                 data |-> Get(result, <<"d","a","t","a">>),
                                 errors |-> errors,
                                 response |-> Obj(<< <<<<"d","a","t","a">>, Get(result, <<"d","a","t","a">>)>>,
                                                     <<<<"e","r","r","o","r","s">>, errors>>,
                                                     <<<<"e","x","t","e","n","s","i","o","n","s">>, Get(result, <<"e","x","t","e","n","s","i","o","n","s">>)>> >>)])
          ELSE Return(result)

\* Results that are used more than once are handed to a second operator as a
\* parameter (the part of the method after its await), so that they are computed
\* once.

\* query() once withRetry has completed with r
queryResume(payload, r) == [sent |-> [i \in 1..r.invocations |-> payload]] @@ r

\* MondayApiClient.query: resps[i] is the transport's outcome for the i-th POST.
\* The result is withRetry's, with the POST bodies sent.
query(queryName, variables, resps, config) ==
  queryResume(IF variables.f # <<>>
              THEN Obj(<< <<<<"q","u","e","r","y">>, Str(queryName)>>, <<<<"v","a","r","i","a","b","l","e","s">>, variables>> >>)
              ELSE Obj(<< <<<<"q","u","e","r","y">>, Str(queryName)>> >>),
              withRetry([i \in DOMAIN resps |-> QueryAttempt(resps[i])], config))

\* a call that throws before anything is sent
ThrowEarly(e) ==
  [kind |-> "throw", error |-> e, sent |-> <<>>, sleeps |-> <<>>, invocations |-> 0]

\* MondayApiClient.createItem
createItem(boardId, itemName, columnValues, createLabels, resps, config) ==
  IF IsNullish(boardId) THEN ThrowEarly(ReadOfNullish(boardId, <<"t","o","S","t","r","i","n","g">>))
  ELSE query(<<"C","r","e","a","t","e","I","t","e","m">>,
             Obj(<< <<<<"b","o","a","r","d","I","d">>, Str(ToStr(boardId))>>,
                    <<<<"i","t","e","m","N","a","m","e">>, itemName>>,
                    <<<<"c","o","l","u","m","n","V","a","l","u","e","s">>, Str(JSONStringify(columnValues))>>,
                    <<<<"c","r","e","a","t","e","L","a","b","e","l","s">>, createLabels>> >>),
             resps, config)

\* MondayApiClient.updateItem
updateItem(itemId, boardId, columnValues, resps, config) ==
  IF IsNullish(itemId) THEN ThrowEarly(ReadOfNullish(itemId, <<"t","o","S","t","r","i","n","g">>))
  ELSE IF IsNullish(boardId) THEN ThrowEarly(ReadOfNullish(boardId, <<"t","o","S","t","r","i","n","g">>))
  ELSE query(<<"U","p","d","a","t","e","I","t","e","m">>,
             Obj(<< <<<<"i","t","e","m","I","d">>, Str(ToStr(itemId))>>,
                    <<<<"b","o","a","r","d","I","d">>, Str(ToStr(boardId))>>,
                    <<<<"c","o","l","u","m","n","V","a","l","u","e","s">>, Str(JSONStringify(columnValues))>> >>),
             resps, config)

\* getBoardColumnsResume that reads the columns of a missing response as []
getBoardColumnsResume_OptionalResponse(boardId, boardColumns, r) ==
  IF r.kind = "throw" THEN [board_columns |-> boardColumns] @@ r
  ELSE LET columns ==
             OrElse(OptGet(OptGet(OptGet(OptGet(r.value, <<"d","a","t","a">>), <<"b","o","a","r","d","s">>), <<"0">>),
                           <<"c","o","l","u","m","n","s">>),
                    Arr(<<>>))
       IN [kind |-> "return", value |-> columns, sent |-> r.sent,
           sleeps |-> r.sleeps, invocations |-> r.invocations,
           board_columns |-> Put(boardColumns, ToStr(boardId), columns)]

\* getBoardColumns() once its query has completed with r
getBoardColumnsResume(boardId, boardColumns, r) ==
  IF r.kind = "throw" THEN [board_columns |-> boardColumns] @@ r
  ELSE IF IsNullish(r.value)
  THEN [kind |-> "throw", error |-> ReadOfNullish(r.value, <<"d","a","t","a">>), sent |-> r.sent,
        sleeps |-> r.sleeps, invocations |-> r.invocations,
        board_columns |-> boardColumns]
  ELSE LET columns ==
             OrElse(OptGet(OptGet(OptGet(Get(r.value, <<"d","a","t","a">>), <<"b","o","a","r","d","s">>), <<"0">>),
                           <<"c","o","l","u","m","n","s">>),
                    Arr(<<>>))
       IN [kind |-> "return", value |-> columns, sent |-> r.sent,
           sleeps |-> r.sleeps, invocations |-> r.invocations,
           board_columns |-> Put(boardColumns, ToStr(boardId), columns)]

\* MondayApiClient.getBoardColumns: boardColumns is this.board_columns before the
\* call, the result carries it after the call.  board_columns is always an object,
\* so the 'not initialized' throw cannot happen.
getBoardColumns(boardId, boardColumns, resps, config) ==
  IF HasOwn(boardColumns, ToStr(boardId))
  THEN [kind |-> "return", value |-> OwnValue(boardColumns, ToStr(boardId)),
        sent |-> <<>>, sleeps |-> <<>>, invocations |-> 0, board_columns |-> boardColumns]
  ELSE IF IsNullish(boardId)
  THEN [board_columns |-> boardColumns] @@ ThrowEarly(ReadOfNullish(boardId, <<"t","o","S","t","r","i","n","g">>))
  ELSE getBoardColumnsResume(
         boardId, boardColumns,
         query(<<"G","e","t","B","o","a","r","d","C","o","l","u","m","n","s">>, Obj(<< <<<<"b","o","a","r","d","I","d">>, Str(ToStr(boardId))>> >>),
               resps, config))

-----------------------------------------------------------------------------
(* Numbers and dates read from strings *)

RECURSIVE ParseNat(_)
ParseNat(s) ==
  IF s = <<>> THEN 0
  ELSE 10 * ParseNat(SubSeq(s, 1, Len(s) - 1))
       + (CHOOSE i \in 0..9 : Digits[i + 1] = s[Len(s)])

\* m * 10^(-e) without trailing zeros in its fraction
RECURSIVE Normalize(_, _)
Normalize(m, e) == IF e > 0 /\ m % 10 = 0 THEN Normalize(m \div 10, e - 1) ELSE Dec(m, e)

\* -v
Negate(v) == Dec(-v.m, v.e)

AllDigits(s) == \A i \in DOMAIN s : IsDigit(s[i])

IndexOf(s, c) == IF \E i \in DOMAIN s : s[i] = c THEN CHOOSE i \in DOMAIN s : s[i] = c /\ \A j \in 1..(i - 1) : s[j] # c ELSE 0

\* parseInt(s, 10) for s made of digits
parseInt(s) == IF s = <<>> THEN NaN ELSE Num(ParseNat(s))

\* parseFloat(s) for s made of digits and one dot
parseFloat(s) ==
  LET d == IndexOf(s, ".")
      int == SubSeq(s, 1, d - 1)
      frac == SubSeq(s, d + 1, Len(s))
  IN IF int = <<>> /\ frac = <<>> THEN NaN ELSE Normalize(ParseNat(int \o frac), Len(frac))

\* s.split(sep) for a one-character separator
RECURSIVE split(_, _)
split(s, sep) ==
  LET i == IndexOf(s, sep)
  IN IF i = 0 THEN <<s>> ELSE <<SubSeq(s, 1, i - 1)>> \o split(SubSeq(s, i + 1, Len(s)), sep)

InvalidDate == <<>>

\* new Date(value).toISOString().split('T')[0], or InvalidDate when getTime() is NaN.
\* Numbers are milliseconds since the epoch (the model's are within a day of it);
\* ISO dates (YYYY-MM-DD, the date form of the ECMAScript date-time string
\* format) up to day 28 parse to themselves; any other string is parsed in an
\* implementation-defined way, which the environment settles: rejected, or read
\* as some date.
DateOf(value) ==
  CASE value.t = "num" ->
         IF value.m < 0 /\ (-value.m) >= Pow10(value.e) THEN <<"1","9","6","9","-","1","2","-","3","1">> ELSE <<"1","9","7","0","-","0","1","-","0","1">>
    [] value.t = "bool" -> <<"1","9","7","0","-","0","1","-","0","1">>
    [] value.t = "nan" -> InvalidDate
    [] OTHER ->
         LET s == ToStr(value)
         IN IF /\ Len(s) = 10
               /\ s[5] = "-" /\ s[8] = "-"
               /\ AllDigits(SubSeq(s, 1, 4)) /\ AllDigits(SubSeq(s, 6, 7))
               /\ AllDigits(SubSeq(s, 9, 10))
               /\ ParseNat(SubSeq(s, 6, 7)) \in 1..12
               /\ ParseNat(SubSeq(s, 9, 10)) \in 1..28
            THEN s
            ELSE IF legacyDateParsing THEN <<"2","0","0","1","-","0","1","-","0","1">> ELSE InvalidDate

-----------------------------------------------------------------------------
(* JSON.parse, for texts without string escapes other than \" and \\, and
   numbers without exponent.  A parse step yields [ok, value, rest]. *)

ParseFail == [ok |-> FALSE, value |-> Undefined, rest |-> <<>>]
Parsed(v, rest) == [ok |-> TRUE, value |-> v, rest |-> rest]

RECURSIVE DigitRun(_)
DigitRun(s) == IF s # <<>> /\ IsDigit(Head(s)) THEN <<Head(s)>> \o DigitRun(Tail(s)) ELSE <<>>

ParseNumber(s) ==
  LET neg == s # <<>> /\ Head(s) = "-"
      s1 == IF neg THEN Tail(s) ELSE s
      int == DigitRun(s1)
      s2 == SubSeq(s1, Len(int) + 1, Len(s1))
      hasFrac == s2 # <<>> /\ Head(s2) = "."
      frac == IF hasFrac THEN DigitRun(Tail(s2)) ELSE <<>>
      s3 == IF hasFrac THEN SubSeq(s2, Len(frac) + 2, Len(s2)) ELSE s2
      v == Normalize(ParseNat(int \o frac), Len(frac))
  IN IF int = <<>> \/ (Len(int) > 1 /\ Head(int) = "0") \/ (hasFrac /\ frac = <<>>)
     THEN ParseFail
     ELSE Parsed(IF neg THEN Negate(v) ELSE v, s3)

\* the characters of a string literal after its opening quote
RECURSIVE ParseStringBody(_, _)
ParseStringBody(s, acc) ==
  IF s = <<>> THEN ParseFail
  ELSE IF Head(s) = "\"" THEN Parsed(Str(acc), Tail(s))
  ELSE IF Head(s) = "\\"
  THEN IF Len(s) >= 2 /\ s[2] \in {"\"", "\\"}
       THEN ParseStringBody(SubSeq(s, 3, Len(s)), Append(acc, s[2]))
       ELSE ParseFail
  ELSE ParseStringBody(Tail(s), Append(acc, Head(s)))

RECURSIVE ParseValue(_), ParseElements(_, _), ParseMembers(_, _)

ParseValue(s0) ==
  LET s == trimStart(s0)
  IN IF s = <<>> THEN ParseFail
     ELSE IF startsWith(s, <<"n","u","l","l">>) THEN Parsed(Null, SubSeq(s, 5, Len(s)))
     ELSE IF startsWith(s, <<"t","r","u","e">>) THEN Parsed(Bool(TRUE), SubSeq(s, 5, Len(s)))
     ELSE IF startsWith(s, <<"f","a","l","s","e">>) THEN Parsed(Bool(FALSE), SubSeq(s, 6, Len(s)))
     ELSE IF Head(s) = "\"" THEN ParseStringBody(Tail(s), <<>>)
     ELSE IF Head(s) = "["
     THEN IF trimStart(Tail(s)) # <<>> /\ Head(trimStart(Tail(s))) = "]"
          THEN Parsed(Arr(<<>>), Tail(trimStart(Tail(s))))
          ELSE ParseElements(Tail(s), <<>>)
     ELSE IF Head(s) = "{"
     THEN IF trimStart(Tail(s)) # <<>> /\ Head(trimStart(Tail(s))) = "}"
          THEN Parsed(EmptyObj, Tail(trimStart(Tail(s))))
          ELSE ParseMembers(Tail(s), EmptyObj)
     ELSE ParseNumber(s)

\* value (, value)* ]
ParseElements(s, acc) ==
  LET r == ParseValue(s)
      rest == trimStart(r.rest)
  IN IF ~r.ok \/ rest = <<>> THEN ParseFail
     ELSE IF Head(rest) = "]" THEN Parsed(Arr(Append(acc, r.value)), Tail(rest))
     ELSE IF Head(rest) = "," THEN ParseElements(Tail(rest), Append(acc, r.value))
     ELSE ParseFail

\* "key" : value (, "key" : value)* }
ParseMembers(s0, acc) ==
  LET s == trimStart(s0)
      k == IF s # <<>> /\ Head(s) = "\"" THEN ParseStringBody(Tail(s), <<>>) ELSE ParseFail
      afterKey == trimStart(k.rest)
      r == IF k.ok /\ afterKey # <<>> /\ Head(afterKey) = ":"
           THEN ParseValue(Tail(afterKey)) ELSE ParseFail
      rest == trimStart(r.rest)
  IN IF ~r.ok \/ rest = <<>> THEN ParseFail
     ELSE IF Head(rest) = "}" THEN Parsed(Put(acc, k.value.s, r.value), Tail(rest))
     ELSE IF Head(rest) = "," THEN ParseMembers(Tail(rest), Put(acc, k.value.s, r.value))
     ELSE ParseFail

\* JSON.parse(text): Return(value), or Throw(SyntaxError)
JSONParse(text) ==
  LET r == ParseValue(text)
  IN IF r.ok /\ trimStart(r.rest) = <<>> THEN Return(r.value)
     ELSE Throw(Error(<<"U","n","e","x","p","e","c","t","e","d"," ","t","o","k","e","n">>))

-----------------------------------------------------------------------------
(* Column sanitizers: each yields Return(value) or Throw(error) *)

sanitizeText(value) ==
  IF IsNullish(value) THEN Return(Null)
  ELSE Return(Str(trim(ToStr(value))))

\* /^\S+@\S+\.\S+$/.test(s)
EmailRegexTest_AnyNonSpace(s) ==
  /\ \A k \in DOMAIN s : s[k] \notin WhiteSpace
  /\ \E i, j \in DOMAIN s :
       1 < i /\ i + 1 < j /\ j < Len(s) /\ s[i] = "@" /\ s[j] = "."

\* /^[^\s@]+@[^\s@]+\.[^\s@]+$/.test(s)
EmailRegexTest(s) ==
  \E i, j \in DOMAIN s :
    /\ 1 < i /\ i + 1 < j /\ j < Len(s)
    /\ s[i] = "@" /\ s[j] = "."
    /\ \A k \in DOMAIN s : k # i => (s[k] \notin WhiteSpace /\ s[k] # "@")

sanitizeEmail(value) ==
  IF IsNullish(value) THEN Return(Null)
  ELSE IF ~Truthy(value) \/ value.t # "str"
  THEN Return(Obj(<< <<<<"e","m","a","i","l">>, Str(<<>>)>>, <<<<"t","e","x","t">>, Str(<<>>)>> >>))
  ELSE LET sanitizedEmail == toLowerCase(trim(value.s))
       IN Return(Obj(<< <<<<"e","m","a","i","l">>, IF EmailRegexTest(sanitizedEmail)
                                  THEN Str(sanitizedEmail) ELSE Str(<<>>)>>,
                        <<<<"t","e","x","t">>, Str(sanitizedEmail)>> >>))

sanitizePhone(value) ==
  IF IsNullish(value) THEN Return(Null)
  ELSE IF ~Truthy(value)
  THEN Return(Obj(<< <<<<"p","h","o","n","e">>, Str(<<>>)>>, <<<<"c","o","u","n","t","r","y","S","h","o","r","t","N","a","m","e">>, Str(<<"U","S">>)>> >>))
  ELSE Return(Obj(<< <<<<"p","h","o","n","e">>, Str(SelectSeq(ToStr(value), IsDigit))>>,
                     <<<<"c","o","u","n","t","r","y","S","h","o","r","t","N","a","m","e">>, Str(<<"U","S">>)>> >>))


\* sanitizeNumbers without the joining of the parts after the first dot: what
\* parseFloat alone makes of several dots
sanitizeNumbers_SecondDotEnds(value) ==
  IF IsNullish(value) THEN Return(Null)
  ELSE IF value = Str(<<>>) THEN Return(Null)
  ELSE IF value.t = "obj" THEN Return(Null)
  ELSE LET strValue == ToStr(value)
           isNegative == startsWith(trim(strValue), <<"-">>)
           filtered == SelectSeq(strValue, LAMBDA c : IsDigit(c) \/ c = ".")
           parts == split(filtered, ".")
           oneDot == IF Len(parts) > 2 THEN parts[1] \o <<".">> \o parts[2] ELSE filtered
           numValue == IF includes(oneDot, <<".">>) THEN parseFloat(oneDot) ELSE parseInt(oneDot)
       IN IF filtered = <<>> THEN Return(Null)
          ELSE IF numValue.t = "nan" THEN Return(Null)
          ELSE Return(IF isNegative THEN Negate(numValue) ELSE numValue)

sanitizeNumbers(value) ==
  IF IsNullish(value) THEN Return(Null)
  ELSE IF value = Str(<<>>) THEN Return(Null)
  ELSE IF value.t = "obj" THEN Return(Null)
  ELSE LET strValue == ToStr(value)
           isNegative == startsWith(trim(strValue), <<"-">>)
           filtered == SelectSeq(strValue, LAMBDA c : IsDigit(c) \/ c = ".")
           parts == split(filtered, ".")
           oneDot == IF Len(parts) > 2
                     THEN parts[1] \o <<".">> \o JoinStrings(Tail(parts), <<>>)
                     ELSE filtered
           numValue == IF includes(oneDot, <<".">>) THEN parseFloat(oneDot) ELSE parseInt(oneDot)
       IN IF filtered = <<>> THEN Return(Null)
          ELSE IF numValue.t = "nan" THEN Return(Null)
          ELSE Return(IF isNegative THEN Negate(numValue) ELSE numValue)

sanitizeDate(value) ==
  IF IsNullish(value) THEN Return(Null)
  ELSE IF ~Truthy(value) THEN Return(Obj(<< <<<<"d","a","t","e">>, Null>> >>))
  ELSE IF DateOf(value) = InvalidDate THEN Return(Obj(<< <<<<"d","a","t","e">>, Null>> >>))
  ELSE Return(Obj(<< <<<<"d","a","t","e">>, Str(DateOf(value))>> >>))

sanitizeStatus(value) ==
  IF IsNullish(value) THEN Return(Null)
  ELSE IF ~Truthy(value) THEN Return(Obj(<< <<<<"l","a","b","e","l">>, Str(<<>>)>> >>))
  ELSE Return(Obj(<< <<<<"l","a","b","e","l">>, Str(trim(ToStr(value)))>> >>))

NonEmptyStr(v) == v # Str(<<>>)

sanitizeDropdown(value) ==
  IF IsNullish(value) THEN Return(Null)
  ELSE IF ~Truthy(value) THEN Return(Obj(<< <<<<"l","a","b","e","l","s">>, Arr(<<>>)>> >>))
  ELSE IF value.t = "arr"
  THEN IF \E i \in DOMAIN value.e : IsNullish(value.e[i])
       THEN LET i == CHOOSE i \in DOMAIN value.e :
                       IsNullish(value.e[i]) /\ \A j \in 1..(i - 1) : ~IsNullish(value.e[j])
            IN Throw(ReadOfNullish(value.e[i], <<"t","o","S","t","r","i","n","g">>))
       ELSE Return(Obj(<< <<<<"l","a","b","e","l","s">>,
                            Arr(SelectSeq([i \in DOMAIN value.e |->
                                             Str(trim(ToStr(value.e[i])))],
                                          NonEmptyStr))>> >>))
  ELSE IF value.t = "str"
  THEN LET pieces == split(value.s, ",")
       IN Return(Obj(<< <<<<"l","a","b","e","l","s">>,
                          Arr(SelectSeq([i \in DOMAIN pieces |-> Str(trim(pieces[i]))],
                                        NonEmptyStr))>> >>))
  ELSE Return(Obj(<< <<<<"l","a","b","e","l","s">>, Arr(<<Str(trim(ToStr(value)))>>)>> >>))

sanitizeCheckbox(value) ==
  IF IsNullish(value) THEN Return(Null)
  ELSE Return(Obj(<< <<<<"c","h","e","c","k","e","d">>, Bool(Truthy(value))>> >>))

\* sanitizeLocation() with the coordinates read from v
LocationOf(v, lat, lng) ==
  IF v.t \in {"obj", "arr"} /\ Truthy(lat) /\ Truthy(lng)
  THEN Return(Obj(<< <<<<"l","a","t">>, Str(ToStr(lat))>>,
                     <<<<"l","n","g">>, Str(ToStr(lng))>>,
                     <<<<"a","d","d","r","e","s","s">>, OrElse(Get(v, <<"a","d","d","r","e","s","s">>), Str(<<>>))>> >>))
  ELSE Return(Null)

\* sanitizeLocation() once a string value has been through JSON.parse
sanitizeLocationParsed(value, parsed) ==
  IF parsed.kind = "throw" THEN Return(Obj(<< <<<<"a","d","d","r","e","s","s">>, value>> >>))
  ELSE IF parsed.value.t = "null" THEN Throw(ReadOfNullish(parsed.value, <<"l","a","t">>))
  ELSE LocationOf(parsed.value,
                  OrElse(OptGet(parsed.value, <<"l","a","t">>), OptGet(parsed.value, <<"l","a","t","i","t","u","d","e">>)),
                  OrElse(OptGet(parsed.value, <<"l","n","g">>), OptGet(parsed.value, <<"l","o","n","g","i","t","u","d","e">>)))

sanitizeLocation(value) ==
  IF IsNullish(value) THEN Return(Null)
  ELSE sanitizeLocationParsed(value, IF value.t = "str" THEN JSONParse(value.s)
                                     ELSE Return(value))

sanitizeBoardRelation(value) ==
  IF IsNullish(value) THEN Return(Null)
  ELSE IF Truthy(value) /\ Truthy(Get(value, <<"i","t","e","m","_","i","d","s">>))
  THEN LET ids == Get(value, <<"i","t","e","m","_","i","d","s">>)
       IN IF ids.t # "arr" THEN Throw(NotAFunction(<<"v","a","l","u","e",".","i","t","e","m","_","i","d","s",".","m","a","p">>))
          ELSE IF \E i \in DOMAIN ids.e : IsNullish(ids.e[i])
          THEN LET i == CHOOSE i \in DOMAIN ids.e :
                          IsNullish(ids.e[i]) /\ \A j \in 1..(i - 1) : ~IsNullish(ids.e[j])
               IN Throw(ReadOfNullish(ids.e[i], <<"t","o","S","t","r","i","n","g">>))
          ELSE Return(Obj(<< <<<<"i","t","e","m","_","i","d","s">>,
                               Arr([i \in DOMAIN ids.e |-> Str(ToStr(ids.e[i]))])>> >>))
  ELSE Return(Null)

-----------------------------------------------------------------------------
(* MappingConfig *)

\* options.k !== undefined ? options.k : d
DefinedOr(options, k, d) == IF Get(options, k).t # "undefined" THEN Get(options, k) ELSE d

\* this[key] = options[key] for every key of options[from..] outside the six named ones
RECURSIVE CopyExtraKeys(_, _, _)
CopyExtraKeys(this, options, from) ==
  IF from > Len(options.f) THEN this
  ELSE CopyExtraKeys(IF options.f[from][1] \in {<<"r","e","m","o","t","e","_","k","e","y">>, <<"i","n","_","m","o","n","d","a","y">>, <<"i","n","_","r","e","m","o","t","e">>,
                                                <<"v","a","l","u","e">>, <<"m","o","n","d","a","y","_","i","d">>, <<"r","e","m","o","t","e","_","i","d">>}
                     THEN this
                     ELSE Put(this, options.f[from][1], options.f[from][2]),
                     options, from + 1)

\* new MappingConfig(options), createMappingConfig(options)
MappingConfig(options) ==
  CopyExtraKeys(
    Obj(<< <<<<"r","e","m","o","t","e","_","k","e","y">>, OrElse(Get(options, <<"r","e","m","o","t","e","_","k","e","y">>), Null)>>,
           <<<<"i","n","_","m","o","n","d","a","y">>, DefinedOr(options, <<"i","n","_","m","o","n","d","a","y">>, Bool(TRUE))>>,
           <<<<"i","n","_","r","e","m","o","t","e">>, DefinedOr(options, <<"i","n","_","r","e","m","o","t","e">>, Bool(TRUE))>>,
           <<<<"v","a","l","u","e">>, OrElse(Get(options, <<"v","a","l","u","e">>), Null)>>,
           <<<<"m","o","n","d","a","y","_","i","d">>, OrElse(Get(options, <<"m","o","n","d","a","y","_","i","d">>), Null)>>,
           <<<<"r","e","m","o","t","e","_","i","d">>, OrElse(Get(options, <<"r","e","m","o","t","e","_","i","d">>), Null)>>,
           <<<<"t","r","a","n","s","l","a","t","o","r">>, OrElse(Get(options, <<"t","r","a","n","s","l","a","t","o","r">>), EmptyObj)>> >>),
    options, 1)

createMappingConfig(config) == MappingConfig(config)

-----------------------------------------------------------------------------
(* MondayDynamicMapper *)

\* the first index from i on at which s has a character outside class cls; the
\* class of a character for the tag pattern is {, } or any other
RECURSIVE RunEnd(_, _, _)
RunEnd(s, i, cls) ==
  IF /\ i <= Len(s)
     /\ cls = (IF s[i] = "{" THEN "open" ELSE IF s[i] = "}" THEN "close" ELSE "text")
  THEN RunEnd(s, i + 1, cls) ELSE i

\* description.match(/\{+([^{}]+)\}+/g): the matches from position i on, leftmost
\* first, each as long as it can be, the search resuming after a match
RECURSIVE MatchTags(_, _)
MatchTags(s, i) ==
  IF i > Len(s) THEN <<>>
  ELSE IF s[i] # "{" THEN MatchTags(s, i + 1)
  ELSE LET j == RunEnd(s, i, "open")
           k == RunEnd(s, j, "text")
           m == RunEnd(s, k, "close")
       IN IF k > j /\ m > k
          THEN <<SubSeq(s, i, m - 1)>> \o MatchTags(s, m)
          ELSE MatchTags(s, i + 1)

\* match.replace(/^\{+|\}+$/g, '')
RECURSIVE StripTrailingBraces(_)
StripTrailingBraces(s) ==
  IF s # <<>> /\ s[Len(s)] = "}" THEN StripTrailingBraces(SubSeq(s, 1, Len(s) - 1)) ELSE s

\* StripBraces without the 'g' flag: only the leading run is removed
StripBraces_LeadingOnly(match) == SubSeq(match, RunEnd(match, 1, "open"), Len(match))

StripBraces(match) ==
  StripTrailingBraces(SubSeq(match, RunEnd(match, 1, "open"), Len(match)))

\* Map.prototype.set
MapSet(map, k, v) == [x \in (DOMAIN map) \cup {k} |-> IF x = k THEN v ELSE map[x]]

\* Map.prototype.delete

EmptyMap == <<>>

RECURSIVE SetTags(_, _, _)
SetTags(columnMap, tagMatches, column) ==
  IF tagMatches = <<>> THEN columnMap
  ELSE SetTags(MapSet(columnMap, StripBraces(Head(tagMatches)),
                      [id |-> Get(column, <<"i","d">>),
                       title |-> Get(column, <<"t","i","t","l","e">>),
                       type |-> Get(column, <<"t","y","p","e">>),
                       settings_str |-> Get(column, <<"s","e","t","t","i","n","g","s","_","s","t","r">>)]),
               Tail(tagMatches), column)

\* columns.forEach(column => ...) from column i on: Return(columnMap) or Throw
RECURSIVE BuildColumnMap(_, _, _)
BuildColumnMap(columns, i, columnMap) ==
  IF i > Len(columns) THEN Return(columnMap)
  ELSE LET column == columns[i]
           description == OrElse(OptGet(column, <<"d","e","s","c","r","i","p","t","i","o","n">>), Str(<<>>))
       IN IF IsNullish(column) THEN Throw(ReadOfNullish(column, <<"d","e","s","c","r","i","p","t","i","o","n">>))
          ELSE IF description.t # "str" THEN Throw(NotAFunction(<<"d","e","s","c","r","i","p","t","i","o","n",".","m","a","t","c","h">>))
          ELSE BuildColumnMap(columns, i + 1,
                              SetTags(columnMap, MatchTags(description.s, 1), column))

CacheKey(boardId) == <<"b","o","a","r","d","_">> \o ToStr(boardId)

\* fetchBoardColumnSettingsEnd that leaves an entry the cache already has
fetchBoardColumnSettingsEnd_KeepFirst(boardId, cache, g, built) ==
  IF built.kind = "throw"
  THEN [kind |-> "throw",
        error |-> Error(<<"F","a","i","l","e","d"," ","t","o"," ","f","e","t","c","h"," ","c","o","l","u","m","n"," ","s","e","t","t","i","n","g","s"," ","f","o","r"," ","b","o","a","r","d"," ">>
                        \o ToStr(boardId) \o <<":"," ">> \o ToStr(built.error.message)),
        sent |-> g.sent, sleeps |-> g.sleeps,
        cache |-> cache, board_columns |-> g.board_columns]
  ELSE [kind |-> "return", value |-> built.value, sent |-> g.sent,
        sleeps |-> g.sleeps,
        cache |-> IF CacheKey(boardId) \in DOMAIN cache THEN cache
                  ELSE MapSet(cache, CacheKey(boardId), built.value),
        board_columns |-> g.board_columns]

\* the end of fetchBoardColumnSettings(): g is what getBoardColumns did, built the
\* column map made from its columns (or the error thrown on the way)
fetchBoardColumnSettingsEnd(boardId, cache, g, built) ==
  IF built.kind = "throw"
  THEN [kind |-> "throw",
        error |-> Error(<<"F","a","i","l","e","d"," ","t","o"," ","f","e","t","c","h"," ","c","o","l","u","m","n"," ","s","e","t","t","i","n","g","s"," ","f","o","r"," ","b","o","a","r","d"," ">>
                        \o ToStr(boardId) \o <<":"," ">> \o ToStr(built.error.message)),
        sent |-> g.sent, sleeps |-> g.sleeps,
        cache |-> cache, board_columns |-> g.board_columns]
  ELSE [kind |-> "return", value |-> built.value, sent |-> g.sent,
        sleeps |-> g.sleeps,
        cache |-> MapSet(cache, CacheKey(boardId), built.value),
        board_columns |-> g.board_columns]

\* fetchBoardColumnSettings() once getBoardColumns has completed with g
fetchBoardColumnSettingsResume(boardId, cache, g) ==
  fetchBoardColumnSettingsEnd(
    boardId, cache, g,
    IF g.kind = "throw" THEN Throw(g.error)
    ELSE IF g.value.t # "arr" THEN Throw(NotAFunction(<<"c","o","l","u","m","n","s",".","f","o","r","E","a","c","h">>))
    ELSE BuildColumnMap(g.value.e, 1, EmptyMap))

\* MondayDynamicMapper.fetchBoardColumnSettings: cache and boardColumns are the two
\* caches before the call, the result carries them after the call
fetchBoardColumnSettings(boardId, cache, boardColumns, resps, config) ==
  IF CacheKey(boardId) \in DOMAIN cache
  THEN [kind |-> "return", value |-> cache[CacheKey(boardId)], sent |-> <<>>,
        sleeps |-> <<>>, cache |-> cache, board_columns |-> boardColumns]
  ELSE fetchBoardColumnSettingsResume(
         boardId, cache, getBoardColumns(boardId, boardColumns, resps, config))

\* the dispatch without its case for long_text columns
sanitizeValueForColumnType_NoLongText(value, columnType) ==
  CASE columnType = Str(<<"t","e","x","t">>) -> sanitizeText(value)
    [] columnType = Str(<<"e","m","a","i","l">>) -> sanitizeEmail(value)
    [] columnType = Str(<<"p","h","o","n","e">>) -> sanitizePhone(value)
    [] columnType = Str(<<"n","u","m","b","e","r","s">>) -> sanitizeNumbers(value)
    [] columnType = Str(<<"d","a","t","e">>) -> sanitizeDate(value)
    [] columnType = Str(<<"s","t","a","t","u","s">>) -> sanitizeStatus(value)
    [] columnType = Str(<<"d","r","o","p","d","o","w","n">>) -> sanitizeDropdown(value)
    [] columnType = Str(<<"c","h","e","c","k","b","o","x">>) -> sanitizeCheckbox(value)
    [] columnType = Str(<<"l","o","c","a","t","i","o","n">>) -> sanitizeLocation(value)
    [] columnType = Str(<<"b","o","a","r","d","_","r","e","l","a","t","i","o","n">>) -> sanitizeBoardRelation(value)
    [] OTHER -> Return(value)

sanitizeValueForColumnType(value, columnType) ==
  CASE columnType = Str(<<"t","e","x","t">>) -> sanitizeText(value)
    [] columnType = Str(<<"l","o","n","g","_","t","e","x","t">>) -> sanitizeText(value)
    [] columnType = Str(<<"e","m","a","i","l">>) -> sanitizeEmail(value)
    [] columnType = Str(<<"p","h","o","n","e">>) -> sanitizePhone(value)
    [] columnType = Str(<<"n","u","m","b","e","r","s">>) -> sanitizeNumbers(value)
    [] columnType = Str(<<"d","a","t","e">>) -> sanitizeDate(value)
    [] columnType = Str(<<"s","t","a","t","u","s">>) -> sanitizeStatus(value)
    [] columnType = Str(<<"d","r","o","p","d","o","w","n">>) -> sanitizeDropdown(value)
    [] columnType = Str(<<"c","h","e","c","k","b","o","x">>) -> sanitizeCheckbox(value)
    [] columnType = Str(<<"l","o","c","a","t","i","o","n">>) -> sanitizeLocation(value)
    [] columnType = Str(<<"b","o","a","r","d","_","r","e","l","a","t","i","o","n">>) -> sanitizeBoardRelation(value)
    [] OTHER -> Return(value)

\* path.split('.').reduce(...) from segment i on, with current the value reached
RECURSIVE ReducePath(_, _, _)
ReducePath(current, keys, i) ==
  IF i > Len(keys) THEN current
  ELSE ReducePath(IF Truthy(current) /\ Get(current, keys[i]).t # "undefined"
                  THEN Get(current, keys[i]) ELSE Undefined,
                  keys, i + 1)

getNestedValue(obj, path) == ReducePath(obj, split(path, "."), 1)

populateEntry(configData, externalData) ==
  IF Truthy(Get(configData, <<"i","n","_","r","e","m","o","t","e">>)) /\ Truthy(Get(configData, <<"r","e","m","o","t","e","_","k","e","y">>))
  THEN LET remoteValue == getNestedValue(externalData, Get(configData, <<"r","e","m","o","t","e","_","k","e","y">>).s)
       IN IF remoteValue.t # "undefined" THEN Put(configData, <<"v","a","l","u","e">>, remoteValue)
          ELSE configData
  ELSE configData

\* MondayDynamicMapper.populateConfigValues
populateConfigValues(mappingConfig, externalData) ==
  Obj([i \in DOMAIN mappingConfig.f |->
         <<mappingConfig.f[i][1], populateEntry(mappingConfig.f[i][2], externalData)>>])

\* ColumnValuesWith without the test for null
ColumnValuesWith_KeepNull(columnValues, columnInfo, sanitized) ==
  Put(columnValues, ToStr(columnInfo.id), sanitized.value)

\* one turn of processMapping's for loop, from the sanitized value on
ColumnValuesWith(columnValues, columnInfo, sanitized) ==
  IF sanitized.value # Null
  THEN Put(columnValues, ToStr(columnInfo.id), sanitized.value)
  ELSE columnValues

\* the for loop of processMapping from entry i on: Return(columnValues) or Throw
RECURSIVE BuildColumnValues(_, _, _, _), BuildColumnValuesFrom(_, _, _, _, _)
BuildColumnValues(entries, columnMap, i, columnValues) ==
  IF i > Len(entries) THEN Return(columnValues)
  ELSE IF ~Truthy(Get(entries[i][2], <<"i","n","_","m","o","n","d","a","y">>))
  THEN BuildColumnValues(entries, columnMap, i + 1, columnValues)
  ELSE IF entries[i][1] \notin DOMAIN columnMap
  THEN BuildColumnValues(entries, columnMap, i + 1, columnValues)
  ELSE BuildColumnValuesFrom(
         entries, columnMap, i, columnValues,
         sanitizeValueForColumnType(Get(entries[i][2], <<"v","a","l","u","e">>),
                                    columnMap[entries[i][1]].type))

BuildColumnValuesFrom(entries, columnMap, i, columnValues, sanitized) ==
  IF sanitized.kind = "throw" THEN sanitized
  ELSE BuildColumnValues(entries, columnMap, i + 1,
                         ColumnValuesWith(columnValues, columnMap[entries[i][1]],
                                          sanitized))

\* processMapping() once fetchBoardColumnSettings has completed with f: the
\* column values, or the error thrown on the way
processMappingResume(populatedConfig, f) ==
  [sent |-> f.sent, sleeps |-> f.sleeps, cache |-> f.cache,
   board_columns |-> f.board_columns]
    @@ (IF f.kind = "throw" THEN Throw(f.error)
        ELSE BuildColumnValues(populatedConfig.f, f.value, 1, EmptyObj))

\* MondayDynamicMapper.processMapping
processMapping(mappingConfig, externalData, boardId, cache, boardColumns, resps, config) ==
  processMappingResume(
    populateConfigValues(mappingConfig, externalData),
    fetchBoardColumnSettings(boardId, cache, boardColumns, resps, config))

\* the end of createOrUpdateItem(): p is what processMapping did, m the mutation
createOrUpdateItemEnd(p, m) ==
  [sent |-> p.sent \o m.sent, sleeps |-> p.sleeps \o m.sleeps,
   cache |-> p.cache, board_columns |-> p.board_columns,
   columnValues |-> p.value] @@ m

\* createOrUpdateItemResume with 'itemId != null' for 'itemId'
createOrUpdateItemResume_NotNull(boardId, itemName, itemId, p, mutationResps, config) ==
  IF p.kind = "throw" THEN [columnValues |-> Undefined] @@ p
  ELSE createOrUpdateItemEnd(
         p,
         IF ~IsNullish(itemId)
         THEN updateItem(itemId, boardId, p.value, mutationResps, config)
         ELSE createItem(boardId, itemName, p.value, Bool(TRUE), mutationResps, config))

\* createOrUpdateItem() once processMapping has completed with p
createOrUpdateItemResume(boardId, itemName, itemId, p, mutationResps, config) ==
  IF p.kind = "throw" THEN [columnValues |-> Undefined] @@ p
  ELSE createOrUpdateItemEnd(
         p,
         IF Truthy(itemId)
         THEN updateItem(itemId, boardId, p.value, mutationResps, config)
         ELSE createItem(boardId, itemName, p.value, Bool(TRUE), mutationResps, config))

\* MondayDynamicMapper.createOrUpdateItem: resps answers the column query (if one
\* is sent), mutationResps the mutation
createOrUpdateItem(boardId, mappingConfig, externalData, itemName, itemId, cache, boardColumns, resps, mutationResps, config) ==
  createOrUpdateItemResume(
    boardId, itemName, itemId,
    processMapping(mappingConfig, externalData, boardId, cache, boardColumns, resps, config),
    mutationResps, config)

\* MondayDynamicMapper.clearColumnCache
clearColumnCache(boardId, cache) ==
  IF Truthy(boardId) THEN [x \in (DOMAIN cache) \ {CacheKey(boardId)} |-> cache[x]] ELSE EmptyMap

-----------------------------------------------------------------------------
(* MondayErrorLogger *)

\* workingColumns.k.value = v for the pairs <<k, v>> of assignments, in order:
\* Return(workingColumns) or Throw when some workingColumns.k is missing
RECURSIVE AssignValues(_, _)
AssignValues(workingColumns, assignments) ==
  IF assignments = <<>> THEN Return(workingColumns)
  ELSE LET k == Head(assignments)[1]
           column == Get(workingColumns, k)
       IN IF IsNullish(column)
          THEN Throw(Error(<<"C","a","n","n","o","t"," ","s","e","t"," ","p","r","o","p","e","r","t","i","e","s"," ","o","f"," ">> \o ToStr(column)
                           \o <<" ","(","s","e","t","t","i","n","g"," ","'","v","a","l","u","e","'",")">>))
          ELSE AssignValues(Put(workingColumns, k, Put(column, <<"v","a","l","u","e">>, Head(assignments)[2])),
                            Tail(assignments))

\* the for-in loop of logError from property i on: Return(columnValues) or Throw
RECURSIVE BuildLogValues(_, _, _)
BuildLogValues(props, i, columnValues) ==
  IF i > Len(props) THEN Return(columnValues)
  ELSE LET column == props[i][2]
           mondayColId == OrElse(OptGet(column, <<"m","o","n","d","a","y","_","i","d">>), Str(<<>>))
           mondayColType == OrElse(OptGet(column, <<"m","o","n","d","a","y","_","t","y","p","e">>), Str(<<>>))
           raw == OrElse(OptGet(column, <<"v","a","l","u","e">>), Str(<<>>))
           mondayVal == IF mondayColType = Str(<<"n","u","m","b","e","r","s">>) THEN sanitizeNumbers(raw).value
                        ELSE raw
       IN IF IsNullish(column) THEN Throw(ReadOfNullish(column, <<"m","o","n","d","a","y","_","i","d">>))
          ELSE IF ~Truthy(mondayColId) THEN BuildLogValues(props, i + 1, columnValues)
          ELSE IF mondayColType = Str(<<"m","i","r","r","o","r">>)
          THEN BuildLogValues(props, i + 1, columnValues)
          ELSE IF ~Truthy(mondayVal) /\ mondayVal # Num(0)
          THEN BuildLogValues(props, i + 1, columnValues)
          ELSE BuildLogValues(props, i + 1, Put(columnValues, ToStr(mondayColId), mondayVal))

\* the try block of logError() once createItem has completed with r, and its catch
logErrorEnd(errorName, description, columnValues, r) ==
  LET caught == IF r.kind = "throw" THEN r.error ELSE ReadOfNullish(r.value, <<"d","a","t","a">>)
      mondayId == OrElse(OptGet(OptGet(Get(r.value, <<"d","a","t","a">>), <<"c","r","e","a","t","e","_","i","t","e","m">>), <<"i","d">>), Num(0))
  IN IF r.kind = "throw" \/ IsNullish(r.value)
     THEN [kind |-> "return",
           value |-> Obj(<< <<<<"m","o","n","d","a","y","_","i","d">>, Num(0)>>,
                            <<<<"e","r","r","o","r">>, Str(<<"*","*","*","E","R","R","O","R"," ","S","A","V","I","N","G"," ","T","O"," ","M","O","N","D","A","Y"," ","-"," ">> \o errorName)>>,
                            <<<<"d","e","s","c","r","i","p","t","i","o","n">>,
                              Str(<<"F","a","i","l","e","d"," ","t","o"," ","s","a","v","e",":"," ">> \o ToStr(caught.message))>> >>),
           sent |-> r.sent, sleeps |-> r.sleeps, invocations |-> r.invocations,
           columnValues |-> columnValues]
     ELSE [kind |-> "return",
           value |-> Obj(<< <<<<"m","o","n","d","a","y","_","i","d">>, mondayId>>,
                            <<<<"e","r","r","o","r">>, IF Truthy(mondayId) THEN Str(errorName)
                                       ELSE Str(<<"*","*","*","N","O","T"," ","S","A","V","E","D"," ","I","N"," ","M","O","N","D","A","Y"," ","-"," ">> \o errorName)>>,
                            <<<<"d","e","s","c","r","i","p","t","i","o","n">>, OrElse(description, Str(errorName))>> >>),
           sent |-> r.sent, sleeps |-> r.sleeps, invocations |-> r.invocations,
           columnValues |-> columnValues]

\* logError() from its for-in loop on: assigned is workingColumns with the values set
logErrorSend(boardId, errorName, description, built, resps, config) ==
  IF built.kind = "throw"
  THEN [columnValues |-> Undefined] @@ ThrowEarly(built.error)
  ELSE logErrorEnd(errorName, description, built.value,
                   createItem(boardId, Str(errorName), built.value, Bool(TRUE), resps,
                              config))

\* `${projectName} - ${clientName} - ${workflow} - ${error}`
ErrorName(errorData) ==
  ToStr(Get(errorData, <<"p","r","o","j","e","c","t","N","a","m","e">>)) \o <<" ","-"," ">> \o ToStr(Get(errorData, <<"c","l","i","e","n","t","N","a","m","e">>))
    \o <<" ","-"," ">> \o ToStr(Get(errorData, <<"w","o","r","k","f","l","o","w">>)) \o <<" ","-"," ">> \o ToStr(Get(errorData, <<"e","r","r","o","r">>))

\* the statements workingColumns.k.value = v of logError, as pairs <<k, v>>
logErrorAssignments(errorData) ==
  LET description == Get(errorData, <<"d","e","s","c","r","i","p","t","i","o","n">>)
      payload == Get(errorData, <<"p","a","y","l","o","a","d">>)
  IN << <<<<"c","l","i","e","n","t">>, OrElse(Get(errorData, <<"c","l","i","e","n","t","N","a","m","e">>), Str(<<"À"," ","c","o","n","f","i","g","u","r","e","r">>))>>,
        <<<<"c","l","i","e","n","t","_","w","a","r","n","_","e","m","a","i","l">>, OrElse(Get(errorData, <<"c","l","i","e","n","t","W","a","r","n","E","m","a","i","l">>), Str(<<>>))>>,
        <<<<"d","e","s","c","r","i","p","t","i","o","n">>, OrElse(description, Str(ErrorName(errorData)))>>,
        <<<<"e","r","r","e","u","r">>, Str(ErrorName(errorData))>>,
        <<<<"p","a","y","l","o","a","d">>, IF payload.t = "str" THEN payload
                     ELSE Str(JSONStringify(OrElse(payload, EmptyObj)))>>,
        <<<<"w","o","r","k","f","l","o","w">>, Get(errorData, <<"w","o","r","k","f","l","o","w">>)>>,
        <<<<"p","r","o","j","e","t">>, OrElse(Get(errorData, <<"p","r","o","j","e","c","t","N","a","m","e">>), Str(<<"À"," ","c","o","n","f","i","g","u","r","e","r">>))>>,
        <<<<"e","r","r","o","r","_","t","y","p","e">>, DefinedOr(errorData, <<"e","r","r","o","r","T","y","p","e">>, Str(<<"d","e","v">>))>> >>

\* MondayErrorLogger.logError
logError(boardId, columns, errorData, resps, config) ==
  LET assigned == AssignValues(JSONClone(columns), logErrorAssignments(errorData))
  IN logErrorSend(boardId, ErrorName(errorData), Get(errorData, <<"d","e","s","c","r","i","p","t","i","o","n">>),
                  IF assigned.kind = "throw" THEN assigned
                  ELSE BuildLogValues(assigned.value.f, 1, EmptyObj),
                  resps, config)

-----------------------------------------------------------------------------
(* Writes to objects.  The operators above work on values.  The ones below
   follow the statements of populateConfigValues and logError that write to an
   object (l.664, l.670, l.764-774) in a store of objects: store[a] is the object
   at address a, [t |-> "ref", a |-> a] the reference to it.  A property holds a
   scalar, a reference, or an object that no statement writes to, as a value. *)

\* the value a reference stands for
RECURSIVE Snapshot(_, _)
Snapshot(store, v) ==
  IF v.t # "ref" THEN v
  ELSE Obj([i \in DOMAIN store[v.a].f |->
              <<store[v.a].f[i][1], Snapshot(store, store[v.a].f[i][2])>>])

\* new objects for the object v and for the objects its properties hold: the
\* i-th property's object is at the i-th new address, v after them
Allocate(store, v) ==
  [store |-> store
               \o [i \in DOMAIN v.f |-> IF v.f[i][2].t = "obj" THEN v.f[i][2] ELSE EmptyObj]
               \o << Obj([i \in DOMAIN v.f |->
                           <<v.f[i][1],
                             IF v.f[i][2].t = "obj" THEN [t |-> "ref", a |-> Len(store) + i]
                             ELSE v.f[i][2]>>]) >>,
   ref |-> [t |-> "ref", a |-> Len(store) + Len(v.f) + 1]]

\* populatedConfig[configKey] = configData, without the copy
SpreadCopy_SameObject(store, configData) == [store |-> store, ref |-> configData]

\* { ...configData }: a new object with the properties of configData
SpreadCopy(store, configData) ==
  [store |-> Append(store, store[configData.a]),
   ref |-> [t |-> "ref", a |-> Len(store) + 1]]

\* getNestedValue's reduce from segment i on, with current the value reached
RECURSIVE ReducePathInStore(_, _, _, _)
ReducePathInStore(store, current, keys, i) ==
  IF i > Len(keys) THEN current
  ELSE LET object == IF current.t = "ref" THEN store[current.a] ELSE current
       IN ReducePathInStore(store,
                            IF Truthy(current) /\ Get(object, keys[i]).t # "undefined"
                            THEN Get(object, keys[i]) ELSE Undefined,
                            keys, i + 1)

\* the for loop of populateConfigValues from entry i on
RECURSIVE PopulateInStore(_, _, _, _, _)
PopulateInStore(store, entries, i, populatedConfig, externalData) ==
  IF i > Len(entries) THEN [store |-> store, value |-> populatedConfig]
  ELSE LET configKey == entries[i][1]
           configData == store[entries[i][2].a]
           copy == SpreadCopy(store, entries[i][2])
           copied == [copy.store EXCEPT ![populatedConfig.a] = Put(@, configKey, copy.ref)]
           remoteValue == ReducePathInStore(copied, externalData,
                                            split(Get(configData, <<"r","e","m","o","t","e","_","k","e","y">>).s, "."), 1)
       IN PopulateInStore(
            IF /\ Truthy(Get(configData, <<"i","n","_","r","e","m","o","t","e">>))
               /\ Truthy(Get(configData, <<"r","e","m","o","t","e","_","k","e","y">>))
               /\ remoteValue.t # "undefined"
            THEN [copied EXCEPT ![Get(copied[populatedConfig.a], configKey).a] =
                                   Put(@, <<"v","a","l","u","e">>, remoteValue)]
            ELSE copied,
            entries, i + 1, populatedConfig, externalData)

\* MondayDynamicMapper.populateConfigValues on references: the store after the
\* call and the reference it returns
populateConfigValuesInStore(store, mappingConfig, externalData) ==
  PopulateInStore(Append(store, EmptyObj), store[mappingConfig.a].f, 1,
                  [t |-> "ref", a |-> Len(store) + 1], externalData)

\* the statements workingColumns.k.value = v, in order, up to the first that throws
RECURSIVE AssignValuesInStore(_, _, _)
AssignValuesInStore(store, workingColumns, assignments) ==
  IF assignments = <<>> THEN store
  ELSE LET column == Get(store[workingColumns.a], Head(assignments)[1])
       IN IF column.t # "ref" THEN store
          ELSE AssignValuesInStore(
                 [store EXCEPT ![column.a] = Put(@, <<"v","a","l","u","e">>, Head(assignments)[2])],
                 workingColumns, Tail(assignments))

-----------------------------------------------------------------------------
(* The environment: what the remote answers *)

HttpResponse(status, statusText, text, json) ==
  [kind |-> "response", status |-> status, statusText |-> statusText,
   text |-> Return(text), json |-> json]

OkResponse(body) == HttpResponse(200, <<"O","K">>, <<>>, Return(body))

ConnectionRefused ==
  [kind |-> "reject",
   error |-> [message |-> Str(<<"c","o","n","n","e","c","t"," ","E","C","O","N","N","R","E","F","U","S","E","D">>), code |-> Str(<<"E","C","O","N","N","R","E","F","U","S","E","D">>)]]

RateLimited ==
  OkResponse(Obj(<< <<<<"e","r","r","o","r","s">>, Arr(<<Obj(<< <<<<"m","e","s","s","a","g","e">>, Str(<<"R","a","t","e"," ","l","i","m","i","t"," ","e","x","c","e","e","d","e","d">>)>> >>)>>)>>,
                    <<<<"d","a","t","a">>, Null>> >>))

\* the failure the gateway is to report for a transport outcome: TRUE when the
\* network call did not complete, the status is not a success, the body is not
\* JSON, or the body has a non-empty top-level errors list
TransportFails(resp) ==
  \/ resp.kind = "reject"
  \/ resp.status \notin 200..299
  \/ resp.json.kind = "throw"
  \/ /\ Get(resp.json.value, <<"e","r","r","o","r","s">>).t = "arr"
     /\ Get(resp.json.value, <<"e","r","r","o","r","s">>).e # <<>>

Column(id, type, description) ==
  Obj(<< <<<<"i","d">>, Str(id)>>, <<<<"t","i","t","l","e">>, Str(id)>>, <<<<"t","y","p","e">>, Str(type)>>,
         <<<<"d","e","s","c","r","i","p","t","i","o","n">>, description>>, <<<<"s","e","t","t","i","n","g","s","_","s","t","r">>, Str(<<"{","}">>)>> >>)

ColumnsBody(columns) ==
  Obj(<< <<<<"d","a","t","a">>, Obj(<< <<<<"b","o","a","r","d","s">>, Arr(<<Obj(<< <<<<"c","o","l","u","m","n","s">>, Arr(columns)>> >>)>>)>> >>)>> >>)

\* the boards of the remote account
BoardIds == {Num(1), Num(2)}

\* what the remote may answer to the column query of a board: a failure, the
\* columns of the board, or no board
ColumnResponses(boardId) ==
  {ConnectionRefused, RateLimited}
    \cup {OkResponse(ColumnsBody(
             IF boardId = Num(1)
             THEN << Column(<<"c","1">>, <<"t","e","x","t">>, Str(<<"C","l","i","e","n","t"," ","{","{","{","c","l","i","e","n","t","_","i","d","}","}","}"," ","i","n","f","o"," ","{","e","m","a","i","l","}">>)),
                     Column(<<"c","2">>, <<"n","u","m","b","e","r","s">>, Str(<<"{","t","o","t","a","l","}">>)),
                     Column(<<"c","3">>, <<"t","e","x","t">>, Null),
                     Column(<<"c","4">>, <<"l","o","c","a","t","i","o","n">>, Str(<<"{","p","l","a","c","e","}">>)) >>
             ELSE << Column(<<"d","1">>, <<"s","t","a","t","u","s">>, Str(<<"{","{","s","t","a","t","e","}","}">>)) >>)),
           OkResponse(Obj(<< <<<<"d","a","t","a">>, Obj(<< <<<<"b","o","a","r","d","s">>, Arr(<<>>)>> >>)>> >>))}

\* what the remote may answer to a mutation
MutationResponses ==
  {ConnectionRefused, RateLimited} \cup {OkResponse(Obj(<< <<<<"d","a","t","a">>, Obj(<< <<<<"c","r","e","a","t","e","_","i","t","e","m">>, Obj(<< <<<<"i","d">>, Str(<<"7","7">>)>>, <<<<"n","a","m","e">>, Str(<<"n">>)>> >>)>> >>)>> >>)),
                        OkResponse(Obj(<< <<<<"d","a","t","a">>, Obj(<< <<<<"c","r","e","a","t","e","_","i","t","e","m">>, Null>> >>)>> >>))}

\* what the remote may answer to a query of the caller's
QueryResponses ==
  {ConnectionRefused,
   HttpResponse(503, <<"S","e","r","v","i","c","e"," ","U","n","a","v","a","i","l","a","b","l","e">>, <<"b","u","s","y">>, Throw(Error(<<"U","n","e","x","p","e","c","t","e","d"," ","t","o","k","e","n">>))),
   HttpResponse(200, <<"O","K">>, <<"<","h","t","m","l",">">>, Throw(Error(<<"U","n","e","x","p","e","c","t","e","d"," ","t","o","k","e","n"," ","<">>))),
   RateLimited}
              \cup {OkResponse(Obj(<< <<<<"e","r","r","o","r","s">>,
                                             Arr(<<Obj(<< <<<<"m","e","s","s","a","g","e">>,
                                                            Str(<<"Q","u","e","r","y"," ","h","a","s"," ","C","O","M","P","L","E","X","I","T","Y"," ","6","0","0","0","0","0","0">>)>> >>)>>)>>,
                                          <<<<"d","a","t","a">>, Null>> >>)),
                        OkResponse(Obj(<< <<<<"e","r","r","o","r","s">>,
                                             Arr(<<Obj(<< <<<<"m","e","s","s","a","g","e">>,
                                                            Str(<<"F","i","e","l","d"," ","'","m","e","'"," ","n","o","t"," ","f","o","u","n","d">>)>> >>)>>)>> >>)),
                        OkResponse(Obj(<< <<<<"d","a","t","a">>, Obj(<< <<<<"m","e">>, Str(<<"x">>)>> >>)>> >>)),
                        OkResponse(Obj(<< <<<<"d","a","t","a">>, Obj(<< <<<<"m","e">>, Str(<<"x">>)>> >>)>>,
                                          <<<<"e","r","r","o","r","s">>, Arr(<<>>)>> >>))}

\* the options a caller builds a RetryConfig from
RetryOptions ==
  { [maxRetries |-> m, delays |-> d] :
      m \in {Undefined, Num(0), Num(2)},
      d \in {Undefined, Arr(<<Num(1000), Num(2000)>>)} }

\* the mapping configurations and the external record of the callers
CustomerConfig ==
  Obj(<< <<<<"c","l","i","e","n","t","_","i","d">>, Obj(<< <<<<"r","e","m","o","t","e","_","k","e","y">>, Str(<<"C","u","s","t","o","m","e","r",".","I","d">>)>>,
                               <<<<"i","n","_","r","e","m","o","t","e">>, Bool(TRUE)>>,
                               <<<<"i","n","_","m","o","n","d","a","y">>, Bool(TRUE)>> >>)>>,
         <<<<"t","o","t","a","l">>, Obj(<< <<<<"v","a","l","u","e">>, Str(<<"$","1","2",".","5","0">>)>>,
                           <<<<"i","n","_","r","e","m","o","t","e">>, Bool(FALSE)>>,
                           <<<<"i","n","_","m","o","n","d","a","y">>, Bool(TRUE)>> >>)>> >>)

CustomerRecord == Obj(<< <<<<"C","u","s","t","o","m","e","r">>, Obj(<< <<<<"I","d">>, Str(<<"4","2">>)>> >>)>> >>)

\* the itemId arguments: omitted, null, and ids given as numbers and strings

\* the columns objects of the callers: the eight columns logError fills in, and
\* the same with columns of the caller's own that come with their values
LogColumns ==
  LET LogColumn(id, type) == Obj(<< <<<<"m","o","n","d","a","y","_","i","d">>, Str(id)>>, <<<<"m","o","n","d","a","y","_","t","y","p","e">>, Str(type)>> >>)
      errorColumns ==
        << <<<<"c","l","i","e","n","t">>, LogColumn(<<"e","1">>, <<"t","e","x","t">>)>>,
           <<<<"c","l","i","e","n","t","_","w","a","r","n","_","e","m","a","i","l">>, LogColumn(<<"e","2">>, <<"e","m","a","i","l">>)>>,
           <<<<"d","e","s","c","r","i","p","t","i","o","n">>, LogColumn(<<"e","3">>, <<"l","o","n","g","_","t","e","x","t">>)>>,
           <<<<"e","r","r","e","u","r">>, LogColumn(<<"e","4">>, <<"t","e","x","t">>)>>,
           <<<<"p","a","y","l","o","a","d">>, LogColumn(<<"e","5">>, <<"l","o","n","g","_","t","e","x","t">>)>>,
           <<<<"w","o","r","k","f","l","o","w">>, LogColumn(<<"e","6">>, <<"t","e","x","t">>)>>,
           <<<<"p","r","o","j","e","t">>, LogColumn(<<"e","7">>, <<"m","i","r","r","o","r">>)>>,
           <<<<"e","r","r","o","r","_","t","y","p","e">>, Obj(<< <<<<"m","o","n","d","a","y","_","t","y","p","e">>, Str(<<"s","t","a","t","u","s">>)>> >>)>> >>
      Valued(id, type, value) == Put(LogColumn(id, type), <<"v","a","l","u","e">>, value)
  IN { Obj(errorColumns),
       Obj(errorColumns \o << <<<<"m","o","n","t","a","n","t">>, Valued(<<"n","1">>, <<"n","u","m","b","e","r","s">>, Str(<<"$","0",".","0","0">>))>>,
                               <<<<"h","e","u","r","e","s">>, Valued(<<"n","2">>, <<"n","u","m","b","e","r","s">>, Str(<<"1",",","5"," ","h">>))>>,
                               <<<<"i","n","c","o","n","n","u">>, Valued(<<"n","3">>, <<"n","u","m","b","e","r","s">>, Str(<<"n","/","a">>))>>,
                               <<<<"u","r","g","e","n","t">>, Valued(<<"n","4">>, <<"c","h","e","c","k","b","o","x">>, Bool(FALSE))>> >>),
       Obj(errorColumns \o << <<<<"e","s","s","a","i","s">>, Valued(<<"n","5">>, <<"n","u","m","b","e","r","s">>, Num(0))>> >>) }

ErrorDatas ==
  { Obj(<< <<<<"p","r","o","j","e","c","t","N","a","m","e">>, Str(<<"P">>)>>, <<<<"c","l","i","e","n","t","N","a","m","e">>, Str(<<"C">>)>>,
           <<<<"w","o","r","k","f","l","o","w">>, Str(<<"W">>)>>, <<<<"e","r","r","o","r">>, Str(<<"b","o","o","m">>)>> >>),
    Obj(<< <<<<"p","r","o","j","e","c","t","N","a","m","e">>, Str(<<"P">>)>>, <<<<"w","o","r","k","f","l","o","w">>, Str(<<"W">>)>>,
           <<<<"e","r","r","o","r">>, Str(<<"b","o","o","m">>)>>, <<<<"d","e","s","c","r","i","p","t","i","o","n">>, Str(<<"i","t"," ","b","r","o","k","e">>)>>,
           <<<<"p","a","y","l","o","a","d">>, Obj(<< <<<<"n">>, Num(1)>> >>)>> >>),
    Obj(<< <<<<"c","l","i","e","n","t","N","a","m","e">>, Str(<<"C">>)>>, <<<<"w","o","r","k","f","l","o","w">>, Str(<<"W">>)>>,
           <<<<"e","r","r","o","r">>, Str(<<"b","o","o","m">>)>>, <<<<"e","r","r","o","r","T","y","p","e">>, Str(<<"c","l","i","e","n","t">>)>>,
           <<<<"c","l","i","e","n","t","W","a","r","n","E","m","a","i","l">>, Str(<<"O","p","s","@","E","x","a","m","p","l","e",".","c","o","m">>)>>,
           <<<<"p","a","y","l","o","a","d">>, Str(<<"r","a","w">>)>> >>) }

-----------------------------------------------------------------------------
(* The client, the mapper and the logger in use *)


\* how a call ended and what it sent
Completion(r) ==
  IF r.kind = "return"
  THEN [kind |-> "return", value |-> r.value, sent |-> r.sent, sleeps |-> r.sleeps]
  ELSE [kind |-> "throw", error |-> r.error, sent |-> r.sent, sleeps |-> r.sleeps]

\* new MondayApiClient(token), new MondayDynamicMapper(client)
Constructed ==
  /\ retryConfig = RetryConfig([maxRetries |-> Undefined, delays |-> Undefined])
  /\ board_columns = EmptyObj
  /\ columnSettingsCache = EmptyMap
  /\ servedSinceClear = {}

Init ==
  /\ Constructed
  /\ legacyDateParsing = FALSE
  /\ call = [op |-> "none"]

\* client.setRetryConfig(new RetryConfig(options))
SetRetryConfig(options) ==
  /\ retryConfig' = RetryConfig(options)
  /\ call' = [op |-> "setRetryConfig"]
  /\ UNCHANGED <<board_columns, columnSettingsCache, servedSinceClear, legacyDateParsing>>

\* client.query(query)
Query(resp) ==
  /\ call' = [op |-> "query", resp |-> resp]
              @@ Completion(query(<<"M","e">>, EmptyObj, <<resp>>, retryConfig))
  /\ UNCHANGED <<retryConfig, board_columns, columnSettingsCache, servedSinceClear,
                 legacyDateParsing>>

\* the transport outcomes to choose from for a column query of boardId: it is
\* consulted only when neither cache holds the board
ColumnResponsesNow(boardId) ==
  IF CacheKey(boardId) \in DOMAIN columnSettingsCache
     \/ HasOwn(board_columns, ToStr(boardId))
  THEN {ConnectionRefused}
  ELSE ColumnResponses(boardId)

\* mapper.fetchBoardColumnSettings(boardId)
FetchBoardColumnSettings(boardId, resp) ==
  \E r \in {fetchBoardColumnSettings(boardId, columnSettingsCache, board_columns, <<resp>>,
                                      retryConfig)} :
     /\ columnSettingsCache' = r.cache
     /\ board_columns' = r.board_columns
     /\ servedSinceClear' = IF r.kind = "return" THEN servedSinceClear \cup {CacheKey(boardId)}
                            ELSE servedSinceClear
     /\ call' = [op |-> "fetchBoardColumnSettings", boardId |-> boardId, resp |-> resp,
                 firstSinceClear |-> CacheKey(boardId) \notin servedSinceClear]
                 @@ Completion(r)
     /\ UNCHANGED <<retryConfig, legacyDateParsing>>

\* mapper.clearColumnCache(boardId), mapper.clearColumnCache()
ClearColumnCache(boardId) ==
  /\ columnSettingsCache' = clearColumnCache(boardId, columnSettingsCache)
  /\ servedSinceClear' = IF Truthy(boardId) THEN servedSinceClear \ {CacheKey(boardId)} ELSE {}
  /\ call' = [op |-> "clearColumnCache", boardId |-> boardId]
  /\ UNCHANGED <<retryConfig, board_columns, legacyDateParsing>>

\* mapper.createOrUpdateItem(boardId, mappingConfig, externalData, itemName, itemId);
\* itemId = Undefined is the call without the argument, which defaults it to null
CreateOrUpdateItem(boardId, mappingConfig, externalData, itemId, resp, mutationResp) ==
  \E r \in {createOrUpdateItem(boardId, mappingConfig, externalData, Str(<<"i","t","e","m">>),
                                IF itemId = Undefined THEN Null ELSE itemId,
                                columnSettingsCache, board_columns, <<resp>>,
                                <<mutationResp>>, retryConfig)} :
     /\ columnSettingsCache' = r.cache
     /\ board_columns' = r.board_columns
     /\ servedSinceClear' =
          IF CacheKey(boardId) \in DOMAIN r.cache
          THEN servedSinceClear \cup {CacheKey(boardId)} ELSE servedSinceClear
     /\ call' = [op |-> "createOrUpdateItem", boardId |-> boardId, itemId |-> itemId,
                 columnValues |-> r.columnValues]
                 @@ Completion(r)
     /\ UNCHANGED <<retryConfig, legacyDateParsing>>

\* logger.logError(boardId, columns, errorData)
LogError(boardId, columns, errorData, resp) ==
  \E r \in {logError(boardId, columns, errorData, <<resp>>, retryConfig)} :
     /\ call' = [op |-> "logError", resp |-> resp, columns |-> columns,
                 errorData |-> errorData,
                 columnValues |-> r.columnValues]
                 @@ Completion(r)
     /\ UNCHANGED <<retryConfig, board_columns, columnSettingsCache, servedSinceClear,
                    legacyDateParsing>>

\* the mapper in use: schema fetches, cache clears, and items created or updated
Next ==
  \/ \E boardId \in BoardIds : \E resp \in ColumnResponsesNow(boardId) :
       FetchBoardColumnSettings(boardId, resp)
  \/ \E boardId \in BoardIds \cup {Null} : ClearColumnCache(boardId)
  \/ \E boardId \in BoardIds :
       \E itemId \in {Undefined, Null, Num(0), Num(5), Str(<<>>), Str(<<"9">>)} :
       \E resp \in ColumnResponsesNow(boardId) : \E mutationResp \in MutationResponses :
         CreateOrUpdateItem(boardId, CustomerConfig, CustomerRecord, itemId, resp,
                            mutationResp)

Spec == Init /\ [][Next]_vars

\* the client and the logger in use
NextGateway ==
  \/ \E options \in RetryOptions : SetRetryConfig(options)
  \/ \E resp \in QueryResponses : Query(resp)
  \/ \E boardId \in BoardIds : \E errorData \in ErrorDatas : \E resp \in MutationResponses :
       \E columns \in LogColumns : LogError(boardId, columns, errorData, resp)

SpecGateway == Init /\ [][NextGateway]_vars

-----------------------------------------------------------------------------
(* The column-settings cache *)

\* C1: between two clears of a board's cache, the calls of
\* fetchBoardColumnSettings(b) that return send one column query in all: the
\* first one after the clear (or after construction) sends exactly one, every
\* later one sends none.
C1_OneFetchPerClear ==
  (call.op = "fetchBoardColumnSettings" /\ call.kind = "return")
    => Len(call.sent) = IF call.firstSinceClear THEN 1 ELSE 0

\* a call of fetchBoardColumnSettings whose column query was sent and failed
FetchFailed(c) ==
  c.op = "fetchBoardColumnSettings" /\ Len(c.sent) = 1 /\ TransportFails(c.resp)

\* C18: a call of fetchBoardColumnSettings(b) whose column query fails raises
\* 'Failed to fetch column settings for board b: ...' and leaves the mapper's
\* cache and the client's board_columns as they were, with no entry for b; the
\* next fetchBoardColumnSettings(b) sends a column query again.
C18_FailedFetchCachesNothing ==
  [][/\ FetchFailed(call')
          => /\ call'.kind = "throw"
             /\ startsWith(call'.error.message.s,
                           <<"F","a","i","l","e","d"," ","t","o"," ","f","e","t","c","h"," ","c","o","l","u","m","n"," ","s","e","t","t","i","n","g","s"," ","f","o","r"," ","b","o","a","r","d"," ">>
                             \o ToStr(call'.boardId) \o <<":"," ">>)
             /\ columnSettingsCache' = columnSettingsCache
             /\ board_columns' = board_columns
             /\ CacheKey(call'.boardId) \notin DOMAIN columnSettingsCache'
             /\ ~HasOwn(board_columns', ToStr(call'.boardId))
     /\ (/\ FetchFailed(call)
         /\ call'.op = "fetchBoardColumnSettings"
         /\ call'.boardId = call.boardId)
          => Len(call'.sent) = 1]_vars

\* C18 witness: the column query of board 1 has failed while board 2 is held in
\* both caches
C18_Witness ==
  /\ FetchFailed(call)
  /\ call.boardId = Num(1)
  /\ call.kind = "throw"
  /\ DOMAIN columnSettingsCache = {CacheKey(Num(2))}
  /\ HasOwn(board_columns, <<"2">>)
  /\ ~HasOwn(board_columns, <<"1">>)

-----------------------------------------------------------------------------
(* The gateway's error surface *)

\* C2: query raises exactly when the transport outcome is a failure (no
\* connection, a status outside 2xx, a body that is not JSON, a non-empty errors
\* list), and returns the JSON result otherwise.
C2_QueryRaisesOnFailure ==
  call.op = "query"
    => IF TransportFails(call.resp) THEN call.kind = "throw"
       ELSE call.kind = "return" /\ call.value = call.resp.json.value

\* the message of the error the POST of resp ends with
FailureMessage(resp) == QueryAttempt(resp).error.message.s

\* C7: when the create call of logError fails, logError returns monday_id 0,
\* an error text that starts with the marker, and a description that embeds the
\* message of the failure.
C7_DegradedLogEmbedsFailure ==
  (call.op = "logError" /\ TransportFails(call.resp))
    => /\ call.kind = "return"
       /\ Get(call.value, <<"m","o","n","d","a","y","_","i","d">>) = Num(0)
       /\ startsWith(Get(call.value, <<"e","r","r","o","r">>).s, <<"*","*","*","E","R","R","O","R"," ","S","A","V","I","N","G"," ","T","O"," ","M","O","N","D","A","Y"," ","-"," ">>)
       /\ includes(Get(call.value, <<"d","e","s","c","r","i","p","t","i","o","n">>).s, FailureMessage(call.resp))

\* the value of columns.k when logError builds its payload: the one logError
\* sets for its eight columns, the caller's for any other column
LogValue(columns, errorData, k) ==
  LET errorName == ErrorName(errorData)
      payload == Get(errorData, <<"p","a","y","l","o","a","d">>)
  IN CASE k = <<"c","l","i","e","n","t">> -> OrElse(Get(errorData, <<"c","l","i","e","n","t","N","a","m","e">>), Str(<<"À"," ","c","o","n","f","i","g","u","r","e","r">>))
       [] k = <<"c","l","i","e","n","t","_","w","a","r","n","_","e","m","a","i","l">> -> OrElse(Get(errorData, <<"c","l","i","e","n","t","W","a","r","n","E","m","a","i","l">>), Str(<<>>))
       [] k = <<"d","e","s","c","r","i","p","t","i","o","n">> -> OrElse(Get(errorData, <<"d","e","s","c","r","i","p","t","i","o","n">>), Str(errorName))
       [] k = <<"e","r","r","e","u","r">> -> Str(errorName)
       [] k = <<"p","a","y","l","o","a","d">> -> IF payload.t = "str" THEN payload
                           ELSE Str(JSONStringify(OrElse(payload, EmptyObj)))
       [] k = <<"w","o","r","k","f","l","o","w">> -> Get(errorData, <<"w","o","r","k","f","l","o","w">>)
       [] k = <<"p","r","o","j","e","t">> -> OrElse(Get(errorData, <<"p","r","o","j","e","c","t","N","a","m","e">>), Str(<<"À"," ","c","o","n","f","i","g","u","r","e","r">>))
       [] k = <<"e","r","r","o","r","_","t","y","p","e">> -> DefinedOr(errorData, <<"e","r","r","o","r","T","y","p","e">>, Str(<<"d","e","v">>))
       [] OTHER -> Get(Get(columns, k), <<"v","a","l","u","e">>)

\* that value after number sanitization for a 'numbers' column
LogValueSent(columns, errorData, k) ==
  IF Get(Get(columns, k), <<"m","o","n","d","a","y","_","t","y","p","e">>) = Str(<<"n","u","m","b","e","r","s">>)
  THEN sanitizeNumbers(LogValue(columns, errorData, k)).value
  ELSE LogValue(columns, errorData, k)

\* the columns the payload is to have an entry for: those with a Monday column
\* id, a type other than 'mirror' and a value that is not empty (zero is not)
LogColumnsSent(columns, errorData) ==
  { i \in DOMAIN columns.f :
      /\ Truthy(Get(columns.f[i][2], <<"m","o","n","d","a","y","_","i","d">>))
      /\ Get(columns.f[i][2], <<"m","o","n","d","a","y","_","t","y","p","e">>) # Str(<<"m","i","r","r","o","r">>)
      /\ \/ Truthy(LogValueSent(columns, errorData, columns.f[i][1]))
         \/ LogValueSent(columns, errorData, columns.f[i][1]) = Num(0) }

\* C14: the payload logError sends has an entry columnId -> value for exactly the
\* columns that have a Monday column id, whose type is not 'mirror' and whose
\* value, after number sanitization for 'numbers' columns, is not empty: falsy
\* values other than zero are left out, zero is kept.
C14_LogPayloadRule ==
  call.op = "logError"
    => /\ \A i \in LogColumnsSent(call.columns, call.errorData) :
            /\ HasOwn(call.columnValues, Get(call.columns.f[i][2], <<"m","o","n","d","a","y","_","i","d">>).s)
            /\ Get(call.columnValues, Get(call.columns.f[i][2], <<"m","o","n","d","a","y","_","i","d">>).s)
                 = LogValueSent(call.columns, call.errorData, call.columns.f[i][1])
       /\ \A j \in DOMAIN call.columnValues.f :
            \E i \in LogColumnsSent(call.columns, call.errorData) :
              Get(call.columns.f[i][2], <<"m","o","n","d","a","y","_","i","d">>).s = call.columnValues.f[j][1]

\* C19: every error that query marks with the code COMPLEXITY_ERROR (the first
\* remote error message has 'complexity' or 'rate limit' in it, case ignored) is
\* retryable for isRetryableError.
C19_MarkedIsRetryable ==
  (/\ call.op = "query"
   /\ QueryAttempt(call.resp).kind = "throw"
   /\ QueryAttempt(call.resp).error.code = Str(<<"C","O","M","P","L","E","X","I","T","Y","_","E","R","R","O","R">>))
    => isRetryableError(QueryAttempt(call.resp).error, Null)

-----------------------------------------------------------------------------
(* createOrUpdateItem *)

\* the mutations among the requests sent
IsMutation(payload, name) == Get(payload, <<"q","u","e","r","y">>) = Str(name)
Mutations(sent) ==
  SelectSeq(sent, LAMBDA payload : IsMutation(payload, <<"C","r","e","a","t","e","I","t","e","m">>)
                                   \/ IsMutation(payload, <<"U","p","d","a","t","e","I","t","e","m">>))

\* the one mutation sent is the named one and carries columnValues for the board
SentOne(sent, name, boardId, columnValues) ==
  /\ Len(Mutations(sent)) = 1
  /\ IsMutation(Mutations(sent)[1], name)
  /\ Get(Get(Mutations(sent)[1], <<"v","a","r","i","a","b","l","e","s">>), <<"b","o","a","r","d","I","d">>) = Str(ToStr(boardId))
  /\ Get(Get(Mutations(sent)[1], <<"v","a","r","i","a","b","l","e","s">>), <<"c","o","l","u","m","n","V","a","l","u","e","s">>)
       = Str(JSONStringify(columnValues))

\* C6, as amended: when processMapping raises nothing is sent after it; when it
\* completes, exactly one mutation is sent with its payload: UpdateItem for that
\* itemId when itemId is truthy, CreateItem when itemId is omitted, null, 0 or ''.
C6_DispatchOnTruthiness ==
  call.op = "createOrUpdateItem"
    => IF call.columnValues = Undefined
       THEN call.kind = "throw" /\ Mutations(call.sent) = <<>>
       ELSE IF Truthy(call.itemId)
       THEN /\ SentOne(call.sent, <<"U","p","d","a","t","e","I","t","e","m">>, call.boardId, call.columnValues)
            /\ Get(Get(Mutations(call.sent)[1], <<"v","a","r","i","a","b","l","e","s">>), <<"i","t","e","m","I","d">>)
                 = Str(ToStr(call.itemId))
       ELSE SentOne(call.sent, <<"C","r","e","a","t","e","I","t","e","m">>, call.boardId, call.columnValues)

\* C6 witness: a completed call with the itemId 0, which sent a CreateItem
C6_Witness ==
  /\ call.op = "createOrUpdateItem"
  /\ call.itemId = Num(0)
  /\ call.columnValues # Undefined
  /\ SentOne(call.sent, <<"C","r","e","a","t","e","I","t","e","m">>, call.boardId, call.columnValues)

\* C6 as stated: when processMapping completes, UpdateItem is sent for every
\* itemId that is provided, CreateItem when none is.
C6_UpdateForEveryItemId ==
  (call.op = "createOrUpdateItem" /\ call.columnValues # Undefined)
    => IF call.itemId \notin {Undefined, Null}
       THEN SentOne(call.sent, <<"U","p","d","a","t","e","I","t","e","m">>, call.boardId, call.columnValues)
       ELSE SentOne(call.sent, <<"C","r","e","a","t","e","I","t","e","m">>, call.boardId, call.columnValues)

-----------------------------------------------------------------------------
(* withRetry on its own *)

\* the longest run of invocations the wrapped function is given outcomes for
MaxAttempts == 3

\* the calls of withRetry to make: an invocation of the wrapped function
\* returns, throws an error or throws undefined
InitRetry ==
  /\ Constructed
  /\ legacyDateParsing = FALSE
  /\ call \in [op : {"withRetry"}, done : {FALSE}, options : RetryOptions,
                fn : [1..MaxAttempts ->
                       {Return(Num(7)), Throw(Error(<<"R","e","q","u","e","s","t"," ","t","i","m","e","o","u","t">>)),
                        Throw(Error(<<"b","a","d"," ","r","e","q","u","e","s","t">>)), Throw(Undefined)}]]

\* withRetry(fn, new RetryConfig(options))
WithRetry ==
  /\ call.op = "withRetry" /\ ~call.done
  /\ call' = [op |-> "withRetry", done |-> TRUE, options |-> call.options, fn |-> call.fn]
              @@ withRetry(call.fn, RetryConfig(call.options))
  /\ UNCHANGED <<retryConfig, board_columns, columnSettingsCache, servedSinceClear,
                 legacyDateParsing>>

SpecRetry == InitRetry /\ [][WithRetry]_vars

-----------------------------------------------------------------------------
(* isRetryableError on its own *)

\* the calls of isRetryableError to make; statusCode = Undefined is the call
\* without the argument
InitRetryable ==
  /\ Constructed
  /\ legacyDateParsing = FALSE
  /\ call \in [op : {"isRetryableError"}, done : {FALSE},
                error :
                  [message :
                     {Undefined, Str(<<>>), Str(<<"t","i","m","e","o","u","t">>), Str(<<"R","e","q","u","e","s","t"," ","T","I","M","E","O","U","T">>),
                      Str(<<"t","i","m","e"," ","o","u","t">>), Str(<<"R","a","t","e"," ","L","i","m","i","t"," ","h","i","t">>), Str(<<"r","a","t","e","l","i","m","i","t">>),
                      Str(<<"I","n","t","e","r","n","a","l"," ","S","e","r","v","e","r"," ","E","r","r","o","r">>), Str(<<"i","n","t","e","r","n","a","l"," ","p","r","o","b","l","e","m">>),
                      Str(<<"a","n"," ","I","n","t","e","r","n","a","l"," ","E","r","r","o","r">>), Str(<<"S","e","r","v","i","c","e"," ","U","n","a","v","a","i","l","a","b","l","e">>),
                      Str(<<"T","e","m","p","o","r","a","r","i","l","y"," ","u","n","a","v","a","i","l","a","b","l","e">>), Str(<<"C","o","m","p","l","e","x","i","t","y"," ","b","u","d","g","e","t"," ","e","x","h","a","u","s","t","e","d">>),
                      Str(<<"T","o","o"," ","M","a","n","y"," ","R","e","q","u","e","s","t","s">>), Str(<<"b","a","d"," ","r","e","q","u","e","s","t">>)},
                   code : ConnectionCodes \cup {Undefined, Str(<<"E","P","I","P","E">>), Str(<<"e","c","o","n","n","r","e","s","e","t">>)},
                   status : {Undefined}],
                statusCode :
                  {Undefined, Null, Num(0), Num(200), Num(404), Num(429), Num(430),
                   Num(499), Num(500), Num(502), Num(503), Num(504), Num(599), Num(600)}]

\* isRetryableError(error, statusCode), statusCode defaulting to null
IsRetryableError ==
  /\ call.op = "isRetryableError" /\ ~call.done
  /\ call' = [op |-> "isRetryableError", done |-> TRUE, error |-> call.error,
              statusCode |-> call.statusCode,
              value |-> isRetryableError(call.error,
                                         IF call.statusCode = Undefined THEN Null
                                         ELSE call.statusCode)]
  /\ UNCHANGED <<retryConfig, board_columns, columnSettingsCache, servedSinceClear,
                 legacyDateParsing>>

SpecRetryable == InitRetryable /\ [][IsRetryableError]_vars

\* s has p in it when the case of letters is ignored
ContainsIgnoringCase(s, p) ==
  \E i \in 0..(Len(s) - Len(p)) :
    \A j \in 1..Len(p) : LowerChar(s[i + j]) = LowerChar(p[j])

TransientPhrases ==
  {<<"t","i","m","e","o","u","t">>, <<"r","a","t","e"," ","l","i","m","i","t">>, <<"s","e","r","v","e","r"," ","e","r","r","o","r">>, <<"i","n","t","e","r","n","a","l"," ","e","r","r","o","r">>, <<"s","e","r","v","i","c","e"," ","u","n","a","v","a","i","l","a","b","l","e">>,
   <<"t","e","m","p","o","r","a","r","i","l","y"," ","u","n","a","v","a","i","l","a","b","l","e">>, <<"c","o","m","p","l","e","x","i","t","y"," ","b","u","d","g","e","t">>, <<"t","o","o"," ","m","a","n","y"," ","r","e","q","u","e","s","t","s">>}

\* C10: isRetryableError is true exactly for a connection error code, a status
\* of 429 or 500..599, or a message that has one of the transient phrases in it,
\* case ignored.
C10_RetryablePredicate ==
  (call.op = "isRetryableError" /\ call.done)
    => (call.value
          <=> \/ call.error.code \in {Str(<<"E","C","O","N","N","R","E","S","E","T">>), Str(<<"E","N","O","T","F","O","U","N","D">>),
                                       Str(<<"E","C","O","N","N","R","E","F","U","S","E","D">>), Str(<<"E","T","I","M","E","D","O","U","T">>)}
              \/ /\ call.statusCode.t = "num"
                 /\ call.statusCode.e = 0
                 /\ call.statusCode.m \in {429} \cup (500..599)
              \/ /\ call.error.message.t = "str"
                 /\ \E p \in TransientPhrases :
                      ContainsIgnoringCase(call.error.message.s, p))

\* C10 witness: an error without code or status that is retryable for its
\* message alone, which has the phrase in capitals
C10_Witness ==
  /\ call.op = "isRetryableError" /\ call.done
  /\ call.error.code = Undefined
  /\ call.statusCode = Undefined
  /\ call.error.message = Str(<<"R","e","q","u","e","s","t"," ","T","I","M","E","O","U","T">>)
  /\ call.value

-----------------------------------------------------------------------------
(* The sanitizers on their own *)

\* raw values: scalars, strings (some of them JSON texts), sequences, mappings
RawValues ==
  {Undefined, Null, Bool(TRUE), Bool(FALSE), Num(0), Num(5), Dec(-125, 1), NaN,
   Str(<<>>), Str(<<" ","a","@","b",".","c","o"," ">>), Str(<<"A","@","B">>), Str(<<"$","-","1","2",".","5","0">>), Str(<<"1",".","2",".","3">>),
   Str(<<"2","0","2","4","-","0","2","-","0","3">>), Str(<<"y","e","s","t","e","r","d","a","y">>), Str(<<"x",","," ","y",",",",","z">>), Str(<<"n","u","l","l">>),
   Str(<<"{","\"","l","a","t","\"",":","1",",","\"","l","n","g","\"",":","2","}">>), Str(<<"[","1","]">>), Str(<<"{","b","a","d">>),
   Arr(<<>>), Arr(<<Str(<<" ","a"," ">>), Num(1)>>), Arr(<<Null>>), Arr(<<Str(<<"a">>), Undefined>>),
   EmptyObj,
   Obj(<< <<<<"l","a","t">>, Num(1)>>, <<<<"l","n","g">>, Num(2)>> >>),
   Obj(<< <<<<"l","a","t","i","t","u","d","e">>, Str(<<"1",".","5">>)>>, <<<<"l","o","n","g","i","t","u","d","e">>, Str(<<"2">>)>>,
          <<<<"a","d","d","r","e","s","s">>, Str(<<"M","a","i","n"," ","S","t">>)>> >>),
   Obj(<< <<<<"i","t","e","m","_","i","d","s">>, Arr(<<Num(1), Str(<<"2">>)>>)>> >>),
   Obj(<< <<<<"i","t","e","m","_","i","d","s">>, Arr(<<>>)>> >>),
   Obj(<< <<<<"i","t","e","m","_","i","d","s">>, Str(<<"1","2">>)>> >>),
   Obj(<< <<<<"i","t","e","m","_","i","d","s">>, Arr(<<Num(1), Null>>)>> >>)}

\* the sanitizer calls to make, on either kind of host, for the column types
\* that have a sanitizer and for some that have none
InitSanitize ==
  /\ Constructed
  /\ legacyDateParsing \in BOOLEAN
  /\ call \in [op : {"sanitizeValueForColumnType"}, done : {FALSE},
                input : RawValues,
                columnType :
                  {Str(<<"t","e","x","t">>), Str(<<"l","o","n","g","_","t","e","x","t">>), Str(<<"e","m","a","i","l">>), Str(<<"p","h","o","n","e">>), Str(<<"n","u","m","b","e","r","s">>),
                   Str(<<"d","a","t","e">>), Str(<<"s","t","a","t","u","s">>), Str(<<"d","r","o","p","d","o","w","n">>), Str(<<"c","h","e","c","k","b","o","x">>),
                   Str(<<"l","o","c","a","t","i","o","n">>), Str(<<"b","o","a","r","d","_","r","e","l","a","t","i","o","n">>),
                   Str(<<"p","e","o","p","l","e">>), Str(<<"T","e","x","t">>), Str(<<>>)}]

\* sanitizeValueForColumnType(value, columnType), which applies the sanitizer of
\* the type
SanitizeValueForColumnType ==
  /\ call.op = "sanitizeValueForColumnType" /\ ~call.done
  /\ call' = [op |-> "sanitizeValueForColumnType", done |-> TRUE, input |-> call.input,
              columnType |-> call.columnType]
              @@ sanitizeValueForColumnType(call.input, call.columnType)
  /\ UNCHANGED <<retryConfig, board_columns, columnSettingsCache, servedSinceClear,
                 legacyDateParsing>>

SpecSanitize == InitSanitize /\ [][SanitizeValueForColumnType]_vars

\* C8: every sanitizer returns, a value or null, for every input.
C8_SanitizersNeverRaise ==
  (call.op = "sanitizeValueForColumnType" /\ call.done) => call.kind = "return"

\* C16: for each of the eleven supported column types a null or undefined value
\* is sanitized to null; for any other type name the value is returned as it
\* is, and nothing is raised.
C16_MissingValuesAndDispatch ==
  (call.op = "sanitizeValueForColumnType" /\ call.done)
    => IF call.columnType \in {Str(<<"t","e","x","t">>), Str(<<"l","o","n","g","_","t","e","x","t">>), Str(<<"e","m","a","i","l">>), Str(<<"p","h","o","n","e">>),
                               Str(<<"n","u","m","b","e","r","s">>), Str(<<"d","a","t","e">>), Str(<<"s","t","a","t","u","s">>), Str(<<"d","r","o","p","d","o","w","n">>),
                               Str(<<"c","h","e","c","k","b","o","x">>), Str(<<"l","o","c","a","t","i","o","n">>), Str(<<"b","o","a","r","d","_","r","e","l","a","t","i","o","n">>)}
       THEN call.input \in {Null, Undefined} => (call.kind = "return" /\ call.value = Null)
       ELSE call.kind = "return" /\ call.value = call.input

\* C16 witness: undefined for a long_text column has given null
C16_Witness ==
  /\ call.op = "sanitizeValueForColumnType" /\ call.done
  /\ call.columnType = Str(<<"l","o","n","g","_","t","e","x","t">>)
  /\ call.input = Undefined
  /\ call.kind = "return" /\ call.value = Null

-----------------------------------------------------------------------------
(* Tags in column descriptions *)

\* the longest description of the first column
MaxDescLen == 5

\* the boards to fetch: a first column with any description of at most
\* MaxDescLen characters, a second one without description, with one tag or
\* with two
\* on a mapper under construction
InitTags ==
  /\ Constructed
  /\ legacyDateParsing = FALSE
  /\ call \in [op : {"none"},
                columns :
                  { << Column(<<"t","1">>, <<"t","e","x","t">>, Str(d)), Column(<<"t","2">>, <<"n","u","m","b","e","r","s">>, d2) >> :
                      d \in UNION {[1..n -> {"{", "}", "a", "b"}] : n \in 0..MaxDescLen},
                      d2 \in {Null, Str(<<"{","a","}">>), Str(<<"{","{","{","b","}","}","}"," ","a","n","d"," ","{","a","}","}">>)} }]

\* the first fetch of board 1
NextTags ==
  /\ call.op = "none"
  /\ FetchBoardColumnSettings(Num(1), OkResponse(ColumnsBody(call.columns)))

SpecTags == InitTags /\ [][NextTags]_vars

\* the tags of a description: the texts without braces, not empty, that have a
\* '{' right before them and a '}' right after them
TagsOf(description) ==
  IF description.t # "str" THEN {}
  ELSE { SubSeq(description.s, p + 1, q - 1) :
           <<p, q>> \in { pq \in (DOMAIN description.s) \X (DOMAIN description.s) :
                            /\ pq[1] + 1 < pq[2]
                            /\ description.s[pq[1]] = "{"
                            /\ description.s[pq[2]] = "}"
                            /\ \A i \in (pq[1] + 1)..(pq[2] - 1) :
                                 description.s[i] \notin {"{", "}"} } }

\* the last column of columns that declares tag
LastDeclaring(columns, tag) ==
  columns[CHOOSE i \in DOMAIN columns :
            /\ tag \in TagsOf(Get(columns[i], <<"d","e","s","c","r","i","p","t","i","o","n">>))
            /\ \A j \in DOMAIN columns :
                 tag \in TagsOf(Get(columns[j], <<"d","e","s","c","r","i","p","t","i","o","n">>)) => j <= i]

\* C9: the column map cached for a board has as keys exactly the tags of the
\* descriptions of the board's columns, each with the descriptor of the last
\* column that declares it.
C9_TagExtraction ==
  \A boardId \in BoardIds :
    CacheKey(boardId) \in DOMAIN columnSettingsCache
      => LET columns == OwnValue(board_columns, ToStr(boardId)).e
             columnMap == columnSettingsCache[CacheKey(boardId)]
         IN /\ DOMAIN columnMap
                 = UNION {TagsOf(Get(columns[i], <<"d","e","s","c","r","i","p","t","i","o","n">>)) : i \in DOMAIN columns}
            /\ \A tag \in DOMAIN columnMap :
                 /\ columnMap[tag].id = Get(LastDeclaring(columns, tag), <<"i","d">>)
                 /\ columnMap[tag].type = Get(LastDeclaring(columns, tag), <<"t","y","p","e">>)
                 /\ columnMap[tag].title = Get(LastDeclaring(columns, tag), <<"t","i","t","l","e">>)

\* C9 witness: a first column with a tag in several braces and one that the
\* second column declares too, and a second column with two tags
C9_Witness ==
  /\ CacheKey(Num(1)) \in DOMAIN columnSettingsCache
  /\ {<<"a">>, <<"b">>} \subseteq DOMAIN columnSettingsCache[CacheKey(Num(1))]
  /\ columnSettingsCache[CacheKey(Num(1))][<<"a">>].id = Str(<<"t","2">>)
  /\ columnSettingsCache[CacheKey(Num(1))][<<"b">>].id = Str(<<"t","2">>)
  /\ Get(OwnValue(board_columns, <<"1">>).e[1], <<"d","e","s","c","r","i","p","t","i","o","n">>) = Str(<<"{","{","a","}","}">>)

-----------------------------------------------------------------------------
(* processMapping on configurations of several entries *)

\* the most entries a mapping configuration has
MaxEntries == 2

\* mapper.processMapping(mappingConfig, externalData, boardId)
ProcessMapping(mappingConfig, externalData, boardId, resp) ==
  \E r \in {processMapping(mappingConfig, externalData, boardId, columnSettingsCache,
                            board_columns, <<resp>>, retryConfig)} :
     /\ columnSettingsCache' = r.cache
     /\ board_columns' = r.board_columns
     /\ servedSinceClear' =
          IF CacheKey(boardId) \in DOMAIN r.cache
          THEN servedSinceClear \cup {CacheKey(boardId)} ELSE servedSinceClear
     /\ call' = [op |-> "processMapping", boardId |-> boardId,
                 mappingConfig |-> mappingConfig, externalData |-> externalData]
                 @@ Completion(r)
     /\ UNCHANGED <<retryConfig, legacyDateParsing>>

\* processMapping for board 1 with a configuration of up to MaxEntries entries
\* with distinct keys, in any order.  The entries are for the columns of board 1:
\* two tags of column c1, one of the numbers column c2, one of the location
\* column c4, and a key that is no tag.
NextMapping ==
  LET ConfigEntries ==
        { <<<<"c","l","i","e","n","t","_","i","d">>, Obj(<< <<<<"r","e","m","o","t","e","_","k","e","y">>, Str(<<"C","u","s","t","o","m","e","r",".","I","d">>)>>,
                                 <<<<"i","n","_","r","e","m","o","t","e">>, Bool(TRUE)>>, <<<<"i","n","_","m","o","n","d","a","y">>, Bool(TRUE)>> >>)>>,
          <<<<"c","l","i","e","n","t","_","i","d">>, Obj(<< <<<<"v","a","l","u","e">>, Str(<<"7">>)>>, <<<<"i","n","_","m","o","n","d","a","y">>, Bool(FALSE)>> >>)>>,
          <<<<"e","m","a","i","l">>, Obj(<< <<<<"v","a","l","u","e">>, Str(<<" ","B","o","b"," ">>)>>, <<<<"i","n","_","m","o","n","d","a","y">>, Bool(TRUE)>> >>)>>,
          <<<<"t","o","t","a","l">>, Obj(<< <<<<"v","a","l","u","e">>, Str(<<"n","/","a">>)>>, <<<<"i","n","_","m","o","n","d","a","y">>, Bool(TRUE)>> >>)>>,
          <<<<"p","l","a","c","e">>, Obj(<< <<<<"v","a","l","u","e">>, Str(<<"n","u","l","l">>)>>, <<<<"i","n","_","m","o","n","d","a","y">>, Bool(TRUE)>> >>)>>,
          <<<<"n","i","c","k","n","a","m","e">>, Obj(<< <<<<"v","a","l","u","e">>, Str(<<"B","o","b","b","y">>)>>, <<<<"i","n","_","m","o","n","d","a","y">>, Bool(TRUE)>> >>)>> }
  IN \E f \in { g \in UNION {[1..n -> ConfigEntries] : n \in 0..MaxEntries} :
                   \A i, j \in DOMAIN g : i # j => g[i][1] # g[j][1] } :
       \E resp \in ColumnResponsesNow(Num(1)) :
         ProcessMapping(Obj(f), CustomerRecord, Num(1), resp)

SpecMapping == Init /\ [][NextMapping]_vars

\* the entries of the last processMapping, populated
Populated == populateConfigValues(call.mappingConfig, call.externalData).f

\* the column map the last processMapping worked with
ColumnMapUsed == columnSettingsCache[CacheKey(call.boardId)]

\* the entries that are for the board and have a column there
Matched ==
  { i \in DOMAIN Populated :
      /\ Truthy(Get(Populated[i][2], <<"i","n","_","m","o","n","d","a","y">>))
      /\ Populated[i][1] \in DOMAIN ColumnMapUsed }

ColumnIdOf(i) == ToStr(ColumnMapUsed[Populated[i][1]].id)

\* the value of entry i sanitized for the type of its column
SanitizedOf(i) ==
  sanitizeValueForColumnType(Get(Populated[i][2], <<"v","a","l","u","e">>),
                             ColumnMapUsed[Populated[i][1]].type)

\* the matched entries that give their column a value
Contributing ==
  { i \in Matched : SanitizedOf(i).kind = "return" /\ SanitizedOf(i).value # Null }

\* C4, as amended: processMapping raises when the column map cannot be had or
\* the sanitizer of a matched entry raises.  Otherwise it returns a payload
\* whose keys are the ids of the columns that some matched entry has a
\* non-null sanitized value for, each with the sanitized value of the last
\* such entry of the configuration; other entries add nothing.
C4_PayloadLastEntryWins ==
  call.op = "processMapping"
    => IF CacheKey(call.boardId) \notin DOMAIN columnSettingsCache
       THEN call.kind = "throw"
       ELSE IF \E i \in Matched : SanitizedOf(i).kind = "throw"
       THEN call.kind = "throw"
       ELSE /\ call.kind = "return"
            /\ {call.value.f[n][1] : n \in DOMAIN call.value.f}
                 = {ColumnIdOf(i) : i \in Contributing}
            /\ \A i \in Contributing :
                 (\A j \in Contributing : ColumnIdOf(j) = ColumnIdOf(i) => j <= i)
                   => Get(call.value, ColumnIdOf(i)) = SanitizedOf(i).value

\* C4 witness: a returned payload for two entries of the same column, both
\* with a value
C4_Witness ==
  /\ call.op = "processMapping"
  /\ call.kind = "return"
  /\ \E i, j \in Contributing : i < j /\ ColumnIdOf(i) = ColumnIdOf(j)

\* C4 as stated: a returned payload holds, for every matched entry, the
\* entry's sanitized value under its column's id exactly when that value is
\* not null, and nothing else.
C4_PayloadHoldsEveryEntry ==
  (call.op = "processMapping" /\ call.kind = "return")
    => /\ \A i \in Matched :
            (SanitizedOf(i).value # Null)
              <=> /\ HasOwn(call.value, ColumnIdOf(i))
                  /\ Get(call.value, ColumnIdOf(i)) = SanitizedOf(i).value
       /\ {call.value.f[n][1] : n \in DOMAIN call.value.f}
            \subseteq {ColumnIdOf(i) : i \in Matched}

-----------------------------------------------------------------------------
(* Field rules made with createMappingConfig, then populated *)

\* the options a caller describes a field with: an object with the fields that
\* are given (those that are not Undefined)
FieldOptions ==
  { Obj(SelectSeq(<< <<<<"r","e","m","o","t","e","_","k","e","y">>, k>>, <<<<"i","n","_","r","e","m","o","t","e">>, r>>, <<<<"i","n","_","m","o","n","d","a","y">>, m>>,
                     <<<<"v","a","l","u","e">>, v>> >>,
                  LAMBDA p : p[2] # Undefined)) :
      k \in {Undefined, Str(<<"C","u","s","t","o","m","e","r",".","I","d">>), Str(<<"C","u","s","t","o","m","e","r",".","N","a","m","e">>), Str(<<"C","u","s","t","o","m","e","r",".","I","d",".","x">>),
             Str(<<"O","r","d","e","r",".","I","d">>)},
      r \in {Undefined, Bool(TRUE), Bool(FALSE)},
      m \in {Undefined, Bool(FALSE)},
      v \in {Undefined, Num(0), Bool(FALSE), Str(<<>>), Str(<<"x">>), Num(3)} }

\* the rules to populate: made with createMappingConfig(options), or the plain
\* object options itself
InitPopulate ==
  /\ Constructed
  /\ legacyDateParsing = FALSE
  /\ call \in [op : {"populateConfigValues"}, done : {FALSE}, options : FieldOptions,
                plain : BOOLEAN,
                externalData :
                  {CustomerRecord, Obj(<< <<<<"C","u","s","t","o","m","e","r">>, Null>> >>),
                   Obj(<< <<<<"C","u","s","t","o","m","e","r">>, Obj(<< <<<<"I","d">>, Num(0)>>, <<<<"N","a","m","e">>, Null>> >>)>> >>)}]

\* mapper.populateConfigValues({field: createMappingConfig(options)}, externalData),
\* or mapper.populateConfigValues({field: options}, externalData)
PopulateConfigValues ==
  /\ call.op = "populateConfigValues" /\ ~call.done
  /\ call' = [op |-> "populateConfigValues", done |-> TRUE, options |-> call.options,
              plain |-> call.plain, externalData |-> call.externalData,
              value |-> populateConfigValues(
                          Obj(<< <<<<"f","i","e","l","d">>, IF call.plain THEN call.options
                                           ELSE createMappingConfig(call.options)>> >>),
                          call.externalData)]
  /\ UNCHANGED <<retryConfig, board_columns, columnSettingsCache, servedSinceClear,
                 legacyDateParsing>>

SpecPopulate == InitPopulate /\ [][PopulateConfigValues]_vars

\* what the path leads to in data: Undefined when a segment is missing
RECURSIVE Resolve(_, _)
Resolve(data, segments) ==
  IF segments = <<>> THEN data
  ELSE IF ~Truthy(data) \/ Get(data, Head(segments)) = Undefined THEN Undefined
  ELSE Resolve(Get(data, Head(segments)), Tail(segments))

\* C5: the populated rule of a rule made with createMappingConfig has, when
\* in_remote is true and remote_key is set, the value the path resolves to, or
\* the previous value when the path does not resolve; and otherwise the value
\* the caller supplied, whatever it is.
C5_PopulateKeepsSuppliedValue ==
  (call.op = "populateConfigValues" /\ call.done /\ ~call.plain)
    => LET rule == Get(call.value, <<"f","i","e","l","d">>)
           supplied == IF Get(call.options, <<"v","a","l","u","e">>) = Undefined THEN Null
                       ELSE Get(call.options, <<"v","a","l","u","e">>)
           resolved == IF Truthy(Get(rule, <<"r","e","m","o","t","e","_","k","e","y">>))
                       THEN Resolve(call.externalData,
                                    split(Get(rule, <<"r","e","m","o","t","e","_","k","e","y">>).s, "."))
                       ELSE Undefined
       IN Get(rule, <<"v","a","l","u","e">>)
            = IF Truthy(Get(rule, <<"i","n","_","r","e","m","o","t","e">>)) /\ Truthy(Get(rule, <<"r","e","m","o","t","e","_","k","e","y">>))
                 /\ resolved # Undefined
              THEN resolved
              ELSE supplied

\* C12: a rule that omits in_remote is populated as one with in_remote true (its
\* value is the one its remote_key resolves to), and the populated rule that
\* processMapping tests has a true in_monday when the rule omits in_monday;
\* an explicit false is kept.  This for rules made with createMappingConfig
\* and for plain objects.
C12_OmittedFlagsAreTrue ==
  (call.op = "populateConfigValues" /\ call.done)
    => LET rule == Get(call.value, <<"f","i","e","l","d">>)
           Flag(k) == IF Get(call.options, k) = Undefined THEN TRUE
                      ELSE Truthy(Get(call.options, k))
           resolved == IF Truthy(Get(call.options, <<"r","e","m","o","t","e","_","k","e","y">>))
                       THEN Resolve(call.externalData,
                                    split(Get(call.options, <<"r","e","m","o","t","e","_","k","e","y">>).s, "."))
                       ELSE Undefined
       IN /\ Truthy(Get(rule, <<"i","n","_","m","o","n","d","a","y">>)) <=> Flag(<<"i","n","_","m","o","n","d","a","y">>)
          /\ Truthy(Get(rule, <<"i","n","_","r","e","m","o","t","e">>)) <=> Flag(<<"i","n","_","r","e","m","o","t","e">>)
          /\ (Flag(<<"i","n","_","r","e","m","o","t","e">>) /\ resolved # Undefined) => Get(rule, <<"v","a","l","u","e">>) = resolved

-----------------------------------------------------------------------------
(* sanitizeNumbers and sanitizeEmail on texts *)

\* the longest text given to sanitizeNumbers
MaxNumLen == 4

\* the longest text given to sanitizeEmail
MaxEmailLen == 5

\* the calls to make: sanitizeNumbers on every text of digits, dots, signs and
\* other characters, on the documented examples and on values that are not
\* strings; sanitizeEmail on every text of letters, '@', dots and blanks, on the
\* documented examples and on values that are not strings
InitTexts ==
  /\ Constructed
  /\ legacyDateParsing = FALSE
  /\ call \in
       [op : {"sanitizeValueForColumnType"}, done : {FALSE},
        columnType : {Str(<<"n","u","m","b","e","r","s">>)},
        input :
          {Str(s) : s \in UNION {[1..n -> {"-", ".", "1", "0", "$", " "}] : n \in 0..MaxNumLen}}
          \cup {Str(<<"-","$","1",",","2","3","4",".","5","6">>), Str(<<"a","b","c">>), Str(<<"1",".","2",".","3">>), Str(<<"1","2",",","5",".","0",".","7","5"," ","-">>),
                Undefined, Null, EmptyObj, Obj(<< <<<<"n">>, Num(1)>> >>),
                Num(0), Num(5), Dec(-125, 1), NaN, Bool(TRUE), Bool(FALSE)}]
       \cup
       [op : {"sanitizeValueForColumnType"}, done : {FALSE},
        columnType : {Str(<<"e","m","a","i","l">>)},
        input :
          {Str(s) : s \in UNION {[1..n -> {"a", "@", ".", " "}] : n \in 0..MaxEmailLen}}
          \cup {Str(<<" ","F","o","o","@","B","a","r",".","c","o","m"," ">>), Str(<<"n","o","t","-","a","n","-","e","m","a","i","l">>), Str(<<"a","@","b","@","c",".","d","e">>), Str(<<"A",".","b","@","C",".","d",".","e">>),
                Undefined, Null, Num(0), Num(5), NaN, Bool(TRUE), Bool(FALSE),
                Arr(<<Str(<<"a","@","b",".","c","o">>)>>), Obj(<< <<<<"e","m","a","i","l">>, Str(<<"a","@","b",".","c","o">>)>> >>)}]

SpecTexts == InitTexts /\ [][SanitizeValueForColumnType]_vars

\* the digits of s, in their order
DigitsIn(s) == SelectSeq(s, IsDigit)

\* s has '-' for its first character that is not a blank
LeadingMinus(s) ==
  \E i \in DOMAIN s : s[i] = "-" /\ \A j \in 1..(i - 1) : s[j] \in WhiteSpace

\* C11: sanitizeNumbers gives null for null, undefined, '' and plain objects, and
\* for a text without digits.  For any other input it gives the number whose
\* digits are those of the text, with the decimal point where the text has its
\* first dot (an integer when it has none), negative when the text starts,
\* blanks aside, with a minus sign.
C11_SanitizeNumbers ==
  (call.op = "sanitizeValueForColumnType" /\ call.done /\ call.columnType = Str(<<"n","u","m","b","e","r","s">>))
    => LET s == ToStr(call.input)
           d == IndexOf(s, ".")
           whole == DigitsIn(IF d = 0 THEN s ELSE SubSeq(s, 1, d - 1))
           fraction == IF d = 0 THEN <<>> ELSE DigitsIn(SubSeq(s, d + 1, Len(s)))
           sign == IF LeadingMinus(s) THEN -1 ELSE 1
       IN /\ call.kind = "return"
          /\ IF IsNullish(call.input) \/ call.input = Str(<<>>) \/ call.input.t = "obj"
                \/ whole \o fraction = <<>>
             THEN call.value = Null
             ELSE /\ call.value.t = "num"
                  /\ d = 0 => call.value.e = 0
                  /\ call.value.m * Pow10(Len(fraction))
                       = sign * ParseNat(whole \o fraction) * Pow10(call.value.e)

\* C11 witness: '-$1,234.56' gives -1234.56, '1.2.3' being among the texts too
C11_Witness ==
  /\ call.op = "sanitizeValueForColumnType" /\ call.done
  /\ call.columnType = Str(<<"n","u","m","b","e","r","s">>)
  /\ call.input = Str(<<"-","$","1",",","2","3","4",".","5","6">>)
  /\ call.value = Dec(-123456, 2)

\* the text sanitizeEmail works on: the input trimmed and in lower case
EmailText(v) == toLowerCase(trim(v.s))

\* s has no blank
NoBlank(s) == \A k \in DOMAIN s : s[k] \notin WhiteSpace

\* s is local@domain with exactly one '@', a local part that is not empty, and
\* a domain with a dot that neither starts nor ends it
OneAtAddress(s) ==
  /\ Len(SelectSeq(s, LAMBDA c : c = "@")) = 1
  /\ LET a == IndexOf(s, "@")
         domain == SubSeq(s, a + 1, Len(s))
     IN /\ a > 1
        /\ \E j \in 2..(Len(domain) - 1) : domain[j] = "."

\* what sanitizeEmail is to give for v when addresses are recognised by Matches
EmailResult(v, Matches(_)) ==
  IF IsNullish(v) THEN Null
  ELSE IF v.t # "str" \/ v.s = <<>>
  THEN Obj(<< <<<<"e","m","a","i","l">>, Str(<<>>)>>, <<<<"t","e","x","t">>, Str(<<>>)>> >>)
  ELSE Obj(<< <<<<"e","m","a","i","l">>, IF Matches(EmailText(v)) THEN Str(EmailText(v)) ELSE Str(<<>>)>>,
              <<<<"t","e","x","t">>, Str(EmailText(v))>> >>)

\* C15, as amended: for a string that is not empty, text is the input trimmed
\* and in lower case, and email is that text when it has no blank and is
\* local@domain with exactly one '@' (the pattern ^[^\s@]+@[^\s@]+\.[^\s@]+$),
\* and '' otherwise; null and undefined give null; any other input gives
\* {email: '', text: ''}.
C15_SanitizeEmail ==
  (call.op = "sanitizeValueForColumnType" /\ call.done /\ call.columnType = Str(<<"e","m","a","i","l">>))
    => /\ call.kind = "return"
       /\ call.value = EmailResult(call.input, LAMBDA s : NoBlank(s) /\ OneAtAddress(s))

\* C15 witness: a text with two '@' that ^\S+@\S+\.\S+$ matches, and whose
\* email is ''
C15_Witness ==
  /\ call.op = "sanitizeValueForColumnType" /\ call.done
  /\ call.columnType = Str(<<"e","m","a","i","l">>)
  /\ call.input = Str(<<"a","@","b","@","c",".","d","e">>)
  /\ call.value = Obj(<< <<<<"e","m","a","i","l">>, Str(<<>>)>>, <<<<"t","e","x","t">>, Str(<<"a","@","b","@","c",".","d","e">>)>> >>)

\* C15 as stated: email is the text when the text matches ^\S+@\S+\.\S+$, that
\* is when it has no blank and has an '@' after its first character and, later
\* than the character after that '@', a dot that is not its last character.
C15_EmailMatchesAnyNonSpace ==
  (call.op = "sanitizeValueForColumnType" /\ call.done /\ call.columnType = Str(<<"e","m","a","i","l">>))
    => /\ call.kind = "return"
       /\ call.value
            = EmailResult(call.input,
                          LAMBDA s : /\ NoBlank(s)
                                     /\ \E i \in 2..Len(s) : \E j \in (i + 2)..(Len(s) - 1) :
                                          s[i] = "@" /\ s[j] = ".")

-----------------------------------------------------------------------------
(* Concurrent calls of fetchBoardColumnSettings for board 1 *)

\* the number of calls in progress at once
NumCalls == 2

\* no call has begun
InitConcurrent ==
  /\ Constructed
  /\ legacyDateParsing = FALSE
  /\ call = [op |-> "concurrent",
             calls |-> [p \in 1..NumCalls |-> [pc |-> "idle"]],
             sent |-> <<>>, responded |-> 0, written |-> <<>>]

\* call p runs up to its first await: it is served from the mapper's cache, or
\* getBoardColumns serves it from board_columns, or the column query is posted
Begin(p) ==
  /\ call.calls[p].pc = "idle"
  /\ call' =
       IF CacheKey(Num(1)) \in DOMAIN columnSettingsCache
       THEN [call EXCEPT !.calls[p] =
               [pc |-> "done", early |-> call.responded = 0, kind |-> "return",
                value |-> columnSettingsCache[CacheKey(Num(1))]]]
       ELSE IF HasOwn(board_columns, ToStr(Num(1)))
       THEN [call EXCEPT !.calls[p] =
               [pc |-> "columns", early |-> call.responded = 0,
                g |-> getBoardColumns(Num(1), board_columns, <<>>, retryConfig)]]
       ELSE [call EXCEPT !.calls[p] = [pc |-> "awaiting", early |-> call.responded = 0],
                         !.sent = Append(@, p)]
  /\ UNCHANGED <<retryConfig, board_columns, columnSettingsCache, servedSinceClear,
                 legacyDateParsing>>

\* the POST of call p ends with resp: query and then getBoardColumns resume, and
\* getBoardColumns stores the columns it got
Respond(p, resp) ==
  /\ call.calls[p].pc = "awaiting"
  /\ \E g \in {getBoardColumnsResume(
                  Num(1), board_columns,
                  query(<<"G","e","t","B","o","a","r","d","C","o","l","u","m","n","s">>, Obj(<< <<<<"b","o","a","r","d","I","d">>, Str(ToStr(Num(1)))>> >>),
                        <<resp>>, retryConfig))} :
       /\ board_columns' = g.board_columns
       /\ call' = [call EXCEPT !.calls[p] = [pc |-> "columns", early |-> @.early,
                                            resp |-> resp, g |-> g],
                               !.responded = @ + 1]
  /\ UNCHANGED <<retryConfig, columnSettingsCache, servedSinceClear, legacyDateParsing>>

\* fetchBoardColumnSettings of call p resumes with what getBoardColumns gave it:
\* it builds the column map and stores it, or raises
Finish(p) ==
  /\ call.calls[p].pc = "columns"
  /\ \E f \in {fetchBoardColumnSettingsResume(Num(1), columnSettingsCache,
                                               call.calls[p].g)} :
       /\ columnSettingsCache' = f.cache
       /\ call' = [call EXCEPT !.calls[p] = [pc |-> "done"] @@ Completion(f) @@ @,
                               !.written = IF f.kind = "return"
                                           THEN Append(@, <<p, f.value>>) ELSE @]
  /\ UNCHANGED <<retryConfig, board_columns, servedSinceClear, legacyDateParsing>>

\* the calls interleave at their awaits; the remote's board may have been
\* edited between two column queries
NextConcurrent ==
  \E p \in 1..NumCalls :
    \/ Begin(p)
    \/ \E resp \in ColumnResponses(Num(1))
                    \cup {OkResponse(ColumnsBody(<<Column(<<"c","1">>, <<"t","e","x","t">>, Str(<<"{","e","m","a","i","l","}">>))>>))} :
         Respond(p, resp)
    \/ Finish(p)

SpecConcurrent == InitConcurrent /\ [][NextConcurrent]_vars

\* the column map a call on its own, with nothing cached, makes of the answer resp
MapOfAnswer(resp) ==
  fetchBoardColumnSettings(Num(1), EmptyMap, EmptyObj, <<resp>>, retryConfig).value

\* C13: of the calls that begin before any column query has been answered,
\* each posts one column query of its own, and each whose query is answered
\* with columns returns the column map that a call on its own makes of that
\* answer.  At any moment the cache is empty or holds one entry, for the board,
\* equal to the column map stored last, which is the column map of its call's
\* answer.  A call that has not completed is at one of its awaits: before its
\* start, waiting for the answer, or waiting to resume with the columns.
C13_ConcurrentFirstReferences ==
  call.op = "concurrent"
    => /\ \A p \in 1..NumCalls :
            call.calls[p].pc \in {"idle", "awaiting", "columns", "done"}
       /\ \A p \in 1..NumCalls :
            (call.calls[p].pc # "idle" /\ call.calls[p].early)
              => /\ Len(SelectSeq(call.sent, LAMBDA q : q = p)) = 1
                 /\ (call.calls[p].pc = "done" /\ ~TransportFails(call.calls[p].resp))
                      => /\ call.calls[p].kind = "return"
                         /\ call.calls[p].value = MapOfAnswer(call.calls[p].resp)
       /\ IF call.written = <<>> THEN columnSettingsCache = EmptyMap
          ELSE LET last == call.written[Len(call.written)]
               IN /\ DOMAIN columnSettingsCache = {CacheKey(Num(1))}
                  /\ columnSettingsCache[CacheKey(Num(1))] = last[2]
                  /\ call.calls[last[1]].early
                       => last[2] = MapOfAnswer(call.calls[last[1]].resp)

\* C13 witness: two calls that began before any answer, were answered with
\* different columns, and stored their column maps in the order 2, 1: the cache
\* holds the column map of call 1
C13_Witness ==
  /\ call.op = "concurrent"
  /\ \A p \in 1..2 : call.calls[p].pc = "done" /\ call.calls[p].early
  /\ Len(call.sent) >= 2
  /\ Len(call.written) >= 2
  /\ call.written[1][1] = 2 /\ call.written[2][1] = 1
  /\ call.calls[1].value # call.calls[2].value
  /\ columnSettingsCache[CacheKey(Num(1))] = call.calls[1].value

-----------------------------------------------------------------------------
(* The caller's objects across calls of populateConfigValues, processMapping
   and logError *)

\* the most calls made on the same objects
MaxCalls == 2

\* the caller's mapping configuration, external data and columns, as objects
InitInputs ==
  /\ Constructed
  /\ legacyDateParsing = FALSE
  /\ \E mappingConfig \in
          {CustomerConfig,
           Obj(<< <<<<"c","u","s","t","o","m","e","r">>, createMappingConfig(
                                  Obj(<< <<<<"r","e","m","o","t","e","_","k","e","y">>, Str(<<"C","u","s","t","o","m","e","r">>)>> >>))>>,
                  <<<<"c","l","i","e","n","t","_","i","d">>, Obj(<< <<<<"r","e","m","o","t","e","_","k","e","y">>, Str(<<"C","u","s","t","o","m","e","r",".","I","d">>)>>,
                                        <<<<"i","n","_","r","e","m","o","t","e">>, Bool(TRUE)>>,
                                        <<<<"i","n","_","m","o","n","d","a","y">>, Bool(TRUE)>>,
                                        <<<<"v","a","l","u","e">>, Str(<<"o","l","d">>)>> >>)>> >>)} :
     \E externalData \in {CustomerRecord, Obj(<< <<<<"C","u","s","t","o","m","e","r">>, Null>> >>)} :
     \E columns \in LogColumns :
       \E c \in {Allocate(<<>>, mappingConfig)} :
       \E d \in {Allocate(c.store, externalData)} :
       \E l \in {Allocate(d.store, columns)} :
         call = [op |-> "inputs", calls |-> 0, last |-> "none", kind |-> "none",
                 store |-> l.store, before |-> l.store,
                 mappingConfig |-> c.ref, externalData |-> d.ref, columns |-> l.ref]

\* mapper.populateConfigValues(mappingConfig, externalData)
PopulateInputs ==
  /\ call.op = "inputs" /\ call.calls < MaxCalls
  /\ call' = [call EXCEPT
                !.calls = @ + 1, !.last = "populateConfigValues", !.kind = "return",
                !.store = populateConfigValuesInStore(call.store, call.mappingConfig,
                                                      call.externalData).store]
  /\ UNCHANGED <<retryConfig, board_columns, columnSettingsCache, servedSinceClear,
                 legacyDateParsing>>

\* mapper.processMapping(mappingConfig, externalData, 1)
ProcessMappingInputs(resp) ==
  /\ call.op = "inputs" /\ call.calls < MaxCalls
  /\ \E r \in {processMapping(Snapshot(call.store, call.mappingConfig),
                               Snapshot(call.store, call.externalData), Num(1),
                               columnSettingsCache, board_columns, <<resp>>, retryConfig)} :
       /\ columnSettingsCache' = r.cache
       /\ board_columns' = r.board_columns
       /\ servedSinceClear' =
            IF CacheKey(Num(1)) \in DOMAIN r.cache
            THEN servedSinceClear \cup {CacheKey(Num(1))} ELSE servedSinceClear
       /\ call' = [call EXCEPT
                     !.calls = @ + 1, !.last = "processMapping", !.kind = r.kind,
                     !.store = populateConfigValuesInStore(call.store, call.mappingConfig,
                                                           call.externalData).store]
  /\ UNCHANGED <<retryConfig, legacyDateParsing>>

\* logger.logError(1, columns, errorData)
LogErrorInputs(errorData, resp) ==
  /\ call.op = "inputs" /\ call.calls < MaxCalls
  /\ \E workingColumns \in {Allocate(call.store, JSONClone(Snapshot(call.store, call.columns)))} :
       call' = [call EXCEPT
                  !.calls = @ + 1, !.last = "logError",
                  !.kind = logError(Num(1), Snapshot(call.store, call.columns), errorData,
                                    <<resp>>, retryConfig).kind,
                  !.store = AssignValuesInStore(workingColumns.store, workingColumns.ref,
                                                logErrorAssignments(errorData))]
  /\ UNCHANGED <<retryConfig, board_columns, columnSettingsCache, servedSinceClear,
                 legacyDateParsing>>

NextInputs ==
  \/ PopulateInputs
  \/ \E resp \in ColumnResponsesNow(Num(1)) : ProcessMappingInputs(resp)
  \/ \E errorData \in ErrorDatas : \E resp \in MutationResponses :
       LogErrorInputs(errorData, resp)

SpecInputs == InitInputs /\ [][NextInputs]_vars

\* C17: after any calls of populateConfigValues, processMapping and logError,
\* every object the caller had before the calls (the mapping configuration, each
\* of its rules, the external data and the objects in it, the columns object and
\* each of its columns) has the properties and values it had before.
C17_InputsUnchanged ==
  call.op = "inputs"
    => /\ \A a \in DOMAIN call.before : call.store[a] = call.before[a]
       /\ Snapshot(call.store, call.mappingConfig) = Snapshot(call.before, call.mappingConfig)
       /\ Snapshot(call.store, call.externalData) = Snapshot(call.before, call.externalData)
       /\ Snapshot(call.store, call.columns) = Snapshot(call.before, call.columns)

\* C17 witness: after the calls there is a copy of a rule of the caller's whose
\* value was set from the external data, and a copy of the caller's client
\* column whose value was set
C17_Witness ==
  /\ call.op = "inputs" /\ call.calls = MaxCalls
  /\ \E a \in DOMAIN call.before : \E b \in (DOMAIN call.store) \ (DOMAIN call.before) :
       /\ Truthy(Get(call.before[a], <<"r","e","m","o","t","e","_","k","e","y">>))
       /\ Get(call.store[b], <<"r","e","m","o","t","e","_","k","e","y">>) = Get(call.before[a], <<"r","e","m","o","t","e","_","k","e","y">>)
       /\ Get(call.store[b], <<"v","a","l","u","e">>) # Get(call.before[a], <<"v","a","l","u","e">>)
       /\ Get(call.store[b], <<"v","a","l","u","e">>) # Undefined
  /\ \E a \in DOMAIN call.before : \E b \in (DOMAIN call.store) \ (DOMAIN call.before) :
       /\ Get(call.before[a], <<"m","o","n","d","a","y","_","i","d">>) = Str(<<"e","1">>)
       /\ Get(call.before[a], <<"v","a","l","u","e">>) = Undefined
       /\ Get(call.store[b], <<"m","o","n","d","a","y","_","i","d">>) = Str(<<"e","1">>)
       /\ Get(call.store[b], <<"v","a","l","u","e">>) # Undefined

====
